------------------------------ MODULE OwnedChange ------------------------------
(* What the saved configuration promises its several writers: one value, that  *)
(* nobody changes while a change of the device workflow is undecided or a host *)
(* activation is reserved, and an offer to take back the last decided change.  *)
CONSTANTS Revs, None

VARIABLES
    value,  \* the configuration
    owner,  \* None, or the undecided change: by, before and after
    offer   \* None, or the [before, after] that may be taken back

vars == <<value, owner, offer>>

Init == value \in Revs /\ owner = None /\ offer = None

Owned(by, v) == owner' = [by |-> by, before |-> value, after |-> v]

\* Anyone may change a configuration nobody owns.
Change ==
    /\ owner = None
    /\ value' \in Revs
    /\ UNCHANGED <<owner, offer>>

\* A device change, or the return of the one on offer.
Take ==
    /\ owner = None
    /\ \E v \in Revs \ {value} :
          \/ Owned("change", v)
          \/ offer # None /\ offer.after = value /\ Owned("return", v)
    /\ UNCHANGED <<value, offer>>

Reserve ==
    /\ owner = None
    /\ Owned("host", value)
    /\ UNCHANGED <<value, offer>>

\* The owner alone moves the value, once and to what it announced.
Move ==
    /\ owner # None /\ value = owner.before
    /\ value' = owner.after
    /\ UNCHANGED <<owner, offer>>

\* Decided by what the value is, whoever decides and however late.
Settle ==
    /\ owner # None /\ value \in {owner.before, owner.after}
    /\ owner' = None
    /\ offer' = IF owner.by = "host" \/ value = owner.before THEN offer
                ELSE IF owner.by = "return" THEN None
                ELSE [before |-> owner.before, after |-> owner.after]
    /\ UNCHANGED value

Next == Change \/ Take \/ Reserve \/ Move \/ Settle

Spec == Init /\ [][Next]_vars
===============================================================================
