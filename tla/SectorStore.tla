---------------------------- MODULE SectorStore ------------------------------
(***************************************************************************)
(* What the callers of src/ata.c can count on: a disk whose sectors are    *)
(* read and written whole, each call taking effect at one instant between  *)
(* its start and its return.  The disk is not a durable one: what a write  *)
(* stored is kept over a loss of power only once it has settled.  And the  *)
(* answer is always 1: a write the drive refuses is not told from one it   *)
(* carried out.                                                            *)
(***************************************************************************)
CONSTANTS Clients, Lbas, Sectors, Initial

VARIABLES
  store, settled,   \* what each sector holds, and what a loss of power leaves
  call              \* per caller: the operation, its sector and how far it is

Call  == [op : {"read", "write"}, lba : Lbas, data : Sectors \union {<<>>},
          phase : {"none", "pending", "done"}]

Idle == [op |-> "read", lba |-> CHOOSE l \in Lbas : TRUE, data |-> <<>>, phase |-> "none"]

Init ==
  /\ store = [l \in Lbas |-> Initial] /\ settled = store
  /\ call = [c \in Clients |-> Idle]

Begin(c) ==
  \E new \in Call :
    /\ call[c].phase = "none" /\ new.phase = "pending"
    /\ (new.op = "read") <=> (new.data = <<>>)
    /\ call' = [call EXCEPT ![c] = new] /\ UNCHANGED <<store, settled>>

Read(c) ==
  /\ call[c].phase = "pending" /\ call[c].op = "read"
  /\ call' = [call EXCEPT ![c] = [op |-> "read", lba |-> @.lba, data |-> store[@.lba], phase |-> "done"]]
  /\ UNCHANGED <<store, settled>>

(* The write takes effect, or the drive refuses it and no one is told. *)
Write(c) ==
  /\ call[c].phase = "pending" /\ call[c].op = "write"
  /\ call' = [call EXCEPT ![c].phase = "done"]
  /\ store' \in {store, [store EXCEPT ![call[c].lba] = call[c].data]}
  /\ UNCHANGED settled

End(c) ==
  /\ call[c].phase = "done"
  /\ call' = [call EXCEPT ![c] = Idle] /\ UNCHANGED <<store, settled>>

Settle ==
  /\ \E ls \in SUBSET Lbas :
       settled' = [l \in Lbas |-> IF l \in ls THEN store[l] ELSE settled[l]]
  /\ UNCHANGED <<store, call>>

PowerFails ==
  /\ store' = settled
  /\ call' = [c \in Clients |-> Idle]
  /\ UNCHANGED settled

Next ==
  \/ \E c \in Clients : Begin(c) \/ Read(c) \/ Write(c) \/ End(c)
  \/ Settle \/ PowerFails

Spec == Init /\ [][Next]_<<store, settled, call>>
==============================================================================
