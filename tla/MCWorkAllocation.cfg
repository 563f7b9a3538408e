SPECIFICATION Allocation
CONSTANTS
    Jobs <- EvenJobs
INVARIANTS
    FitToDistribute
    CountsAreChannels
    SlicesFitTheCube
