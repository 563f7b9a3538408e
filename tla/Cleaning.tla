------------------------------ MODULE Cleaning ------------------------------
(***************************************************************************)
(* Major cycles on one processor that holds all images of the model and    *)
(* all data: each time the whole model is subtracted from all data before  *)
(* the residuals of any image are computed from them.                      *)
(***************************************************************************)
EXTENDS Naturals

CONSTANT Limit       \* the most major cycles

VARIABLES images,    \* the images of the model
          parts,     \* the parts of the data
          version,   \* how often the model has been improved
          content,   \* the images that have something in them
          residuals, \* per image and part of the data: the model subtracted
          enough,    \* the peak residual is below the threshold
          finished   \* the residuals of the last model are there

cleaningVars == <<images, parts, version, content, residuals, enough, finished>>

\* The residuals of all images, from all the data less the whole model.
Residuals == [x \in images \X parts |-> <<version, content>>]

CleaningInit ==
    /\ version = 0 /\ residuals = <<>>
    /\ content \subseteq images
    /\ ~enough /\ ~finished

Clean ==
    /\ version < Limit /\ ~enough /\ ~finished
    /\ residuals' = Residuals
    /\ version' = version + 1
    /\ content' \in SUBSET images
    /\ enough' \in BOOLEAN
    /\ UNCHANGED <<images, parts, finished>>

Finish ==
    /\ ~finished
    /\ residuals' = Residuals
    /\ finished' = TRUE
    /\ UNCHANGED <<images, parts, version, content, enough>>

Cleans == CleaningInit /\ [][Clean \/ Finish]_cleaningVars
=============================================================================
