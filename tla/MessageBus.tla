------------------------------ MODULE MessageBus ------------------------------
(***************************************************************************)
(* The Redis Streams of packages/data/messagebus.py, as its users see      *)
(* them: a log whose oldest entries are evicted around a cap, and consumer *)
(* groups that hand every entry out once.  An entry is named by its place  *)
(* in the log.                                                             *)
(***************************************************************************)
EXTENDS Integers, Sequences, FiniteSets

\* A stream: everything ever published, and the first entry still kept.
NoEntries == [log |-> << >>, first |-> 1]

\* publish: XADD with an approximate MAXLEN, which may keep more than the cap.
Published(stream, entry, cap) ==
  LET oldest == Len(stream.log) + 2 - cap
  IN {[log |-> Append(stream.log, entry), first |-> f] :
        f \in {stream.first} \cup (stream.first .. oldest)}

\* A consumer group: the last entry handed out, and those not acknowledged yet.
\* ensure_group at "0" or at "$".
GroupFromStart == [last |-> 0, pel |-> {}]
GroupFromNow(stream) == [last |-> Len(stream.log), pel |-> {}]

\* consume: the next entries after the last one handed out that still exist, at
\* most count of them; what a dead consumer left unacknowledged is not read again.
Ready(stream, group, count) ==
  LET from == IF group.last + 1 < stream.first THEN stream.first ELSE group.last + 1
      to == IF from + count - 1 > Len(stream.log) THEN Len(stream.log) ELSE from + count - 1
  IN [k \in 1 .. (IF to < from THEN 0 ELSE to - from + 1) |-> from + k - 1]

Delivered(group, ids) ==
  [last |-> ids[Len(ids)], pel |-> group.pel \cup {ids[k] : k \in DOMAIN ids}]

\* ack.
Acked(group, ids) == [group EXCEPT !.pel = @ \ ids]

=============================================================================
