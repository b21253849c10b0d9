------------------------------ MODULE SlotTable ------------------------------
(* fs/kfs_slot.c: reserving and removing a slot of a mounted file system, on  *)
(* the descriptor of its page cache and past that cache.  The result of       *)
(* reading is tested for 0 as a failure, and extent_read() of eio.c returns   *)
(* nothing else: a call ends at its first read, which has moved the           *)
(* descriptor.  What is written for other results is never reached.           *)
EXTENDS Super

\* The tests before the first read: the file system is active, the call has
\* nothing against the slot, there is memory for the map.
SlotCall(passes) ==
  /\ Idle
  /\ \/ /\ kfs_active /\ passes
        /\ call' = [op |-> "slot", step |-> "seek", rc |-> 0, arg |-> 0]
     \/ /\ ~kfs_active \/ ~passes \/ "malloc" \in MountFaults
        /\ call' = [op |-> "slot", step |-> "idle", rc |-> -1, arg |-> 0]
  /\ UNCHANGED <<targetVars, sb, cache, page, fd>>

\* The capacity itself is let through by both.
kfs_slot_reserve    == SlotCall(sb.slot.in_use <= sb.slot.capacity)
kfs_slot_remove(id) == SlotCall(id <= sb.slot.capacity)

\* extent_read(): the lseek() to the map of the slots.
BrokenSlotSeek ==
  /\ call.step = "seek" /\ Goes("read")
  /\ fd' = [fd EXCEPT !.offset = sb.slot.table.addr]
  /\ UNCHANGED <<targetVars, sb, cache, page>>
SlotSeek ==
  /\ call.step = "seek" /\ Goes("read")
  /\ fd' = [fd EXCEPT !.offset = sb.slot.bitmap.addr]
  /\ UNCHANGED <<targetVars, sb, cache, page>>

\* The read() moves the descriptor on as far as the target goes; what it has read
\* is forgotten.
ReadOn(blocks) ==
  IF fd.offset * KFS_BLOCKSIZE >= file.size THEN fd.offset
  ELSE Lower(fd.offset + blocks, Ceil(file.size, KFS_BLOCKSIZE))

SlotRead ==
  /\ call.step = "read" /\ Returns(-1)
  /\ fd' = [fd EXCEPT !.offset = ReadOn(sb.slot.bitmap.blocks)]
  /\ UNCHANGED <<targetVars, sb, cache, page>>

SlotNext ==
  \/ kfs_slot_reserve
  \/ \E id \in 0 .. sb.slot.capacity + 1 : kfs_slot_remove(id)
  \/ SlotSeek \/ SlotRead

=============================================================================
