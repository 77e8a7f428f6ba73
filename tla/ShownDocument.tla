--------------------------- MODULE ShownDocument ---------------------------
(***************************************************************************)
(* What the player is promised of the screen.  A picture is what the       *)
(* layers of the game shell show.  A document that is asked for is either  *)
(* accepted, and then the screen is that document's picture, or it is      *)
(* refused, and then the screen is what it was, or the picture of the last *)
(* accepted document put back together, or, when even that is not          *)
(* possible, empty and reported as failed.  It is never a mixture.         *)
(*                                                                         *)
(* A layer may have lost something: what it shows is then not promised,    *)
(* until the next document is accepted.  The others keep the promise.      *)
(***************************************************************************)
CONSTANTS Pictures,      \* what a document can make the screen show
          Empty,         \* the picture of a shell without screens
          Nobody,        \* no document has been accepted, or none is asked for
          Exposed        \* the layers that accepting a document may cost something

VARIABLES shown,         \* what the screen shows
          accepted,      \* the picture of the last accepted document
          asked,         \* the picture of the document being applied
          health,
          lost           \* the layers that may show less than they should

sdVars == <<shown, accepted, asked, health, lost>>

Layers == DOMAIN Empty

(* Every layer that has lost nothing shows its part of the picture. *)
Agrees(picture) == \A l \in Layers \ lost' : shown'[l] = picture[l]

Init == /\ shown = Empty
        /\ accepted = Nobody
        /\ asked = Nobody
        /\ health = "nominal"
        /\ lost = {}

Ask == /\ asked = Nobody
       /\ asked' \in Pictures
       /\ UNCHANGED <<shown, accepted, health, lost>>

Accept == /\ asked # Nobody
          /\ lost' \in SUBSET Exposed
          /\ Agrees(asked)
          /\ accepted' = asked
          /\ asked' = Nobody
          /\ health' = "nominal"

Refuse == /\ asked # Nobody
          /\ Agrees(shown)
          /\ asked' = Nobody
          /\ UNCHANGED <<accepted, health, lost>>

(* Something goes missing, in a call or between two. *)
Drop == /\ lost' \in SUBSET Layers
        /\ lost \subseteq lost'
        /\ Agrees(shown)
        /\ UNCHANGED <<accepted, asked, health>>

Rebuild == /\ asked # Nobody
           /\ accepted # Nobody
           /\ shown' = accepted
           /\ asked' = Nobody
           /\ health' = "recovered"
           /\ lost' = {}
           /\ UNCHANGED accepted

Lose == /\ asked # Nobody
        /\ shown' = Empty
        /\ asked' = Nobody
        /\ health' = "failed"
        /\ lost' = {}
        /\ UNCHANGED accepted

(* The session ends: its screen goes with it. *)
Reset == /\ asked = Nobody
         /\ shown' = Empty
         /\ accepted' = Nobody
         /\ health' = "nominal"
         /\ lost' = {}
         /\ UNCHANGED asked

Next == Ask \/ Accept \/ Refuse \/ Drop \/ Rebuild \/ Lose \/ Reset

Spec == Init /\ [][Next]_sdVars
=============================================================================
