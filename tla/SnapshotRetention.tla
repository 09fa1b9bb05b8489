-------------------------- MODULE SnapshotRetention --------------------------
(***************************************************************************)
(* What the snapshot epochs promise: a reader's snapshot lies between the  *)
(* sequence the store has cleaned up to and the visible one, and a cleanup *)
(* waits for every snapshot below its target.                              *)
(***************************************************************************)
EXTENDS Integers

CONSTANT Reader

VARIABLES
  pin,      \* pin[r]: the sequence r reads at, NoPin without a snapshot
  visible,  \* the visible sequence
  cleaned   \* versions obsolete at this sequence are deleted

vars == <<pin, visible, cleaned>>
NoPin == -1

Init == pin = [r \in Reader |-> NoPin] /\ visible = 0 /\ cleaned = 0

Open(r, s) ==
  /\ pin[r] = NoPin /\ cleaned <= s /\ s <= visible
  /\ pin' = [pin EXCEPT ![r] = s]
  /\ UNCHANGED <<visible, cleaned>>

Release(r) ==
  /\ pin[r] # NoPin
  /\ pin' = [pin EXCEPT ![r] = NoPin]
  /\ UNCHANGED <<visible, cleaned>>

Publish == visible' = visible + 1 /\ UNCHANGED <<pin, cleaned>>

CleanUp(s) ==
  /\ cleaned < s /\ s <= visible
  /\ \A r \in Reader : pin[r] = NoPin \/ s <= pin[r]
  /\ cleaned' = s
  /\ UNCHANGED <<pin, visible>>

Next ==
  \/ \E r \in Reader : Release(r) \/ \E s \in 0..visible : Open(r, s)
  \/ Publish
  \/ \E s \in 1..visible : CleanUp(s)

Spec == Init /\ [][Next]_vars
=============================================================================
