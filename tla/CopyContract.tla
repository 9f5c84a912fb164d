---------------------------- MODULE CopyContract ----------------------------
(***************************************************************************)
(* What one file copy promises its caller, the transfer runtime: a name    *)
(* is announced (and journalled) before anything may appear under it, the  *)
(* payload appears under at most one announced name, and the verdict is    *)
(* truthful about it.  A raised copy may or may not have published: that   *)
(* is why the recovery journal says "possibly published".                  *)
(*                                                                         *)
(* One exception: S3's client repeats a write whose answer was lost, and   *)
(* is told that the object exists.  The copy takes it for somebody else's, *)
(* and may announce and write another name or report a skip.               *)
(***************************************************************************)
CONSTANTS Names,     \* names the payload may be published under
          Nil

VARIABLES announced, \* names passed to before_publication
          target,    \* the name the payload appeared under, or Nil
          verdict,   \* Nil while running, then "copied", "skipped" or "raised"
          lost       \* the payload appeared and was taken for another's

contractVars == <<announced, target, verdict, lost>>

ContractTypeOK ==
    /\ announced \subseteq Names
    /\ target \in Names \cup {Nil}
    /\ verdict \in {Nil, "copied", "skipped", "raised"}
    /\ lost \in BOOLEAN

ContractInit == announced = {} /\ target = Nil /\ verdict = Nil /\ lost = FALSE

Announce(n) ==
    /\ verdict = Nil
    /\ target = Nil \/ lost
    /\ announced' = announced \cup {n}
    /\ UNCHANGED <<target, verdict, lost>>

Appear(n) ==
    /\ verdict = Nil
    /\ target = Nil \/ lost
    /\ n \in announced
    /\ target' = n
    /\ lost' \in {lost, TRUE}
    /\ UNCHANGED <<announced, verdict>>

Finish(v) ==
    /\ verdict = Nil
    /\ v = "copied" => target # Nil
    /\ v = "skipped" => target = Nil \/ lost
    /\ verdict' = v
    /\ \/ UNCHANGED announced
       \/ \* the hook was interrupted after its record was durable
          v = "raised" /\ \E n \in Names: announced' = announced \cup {n}
    /\ UNCHANGED <<target, lost>>

ContractNext ==
    \/ \E n \in Names: Announce(n) \/ Appear(n)
    \/ \E v \in {"copied", "skipped", "raised"}: Finish(v)

ContractSpec == ContractInit /\ [][ContractNext]_contractVars
=============================================================================
