------------------------------ MODULE HostLink ------------------------------
(***************************************************************************)
(* What becomes of a line on its way to a host (firmware/common            *)
(* host_link.h): the ring each sink has, and the policy that decides which *)
(* line waits for room and which is lost. The ring is a sequence of lines; *)
(* a line says its kind.                                                   *)
(***************************************************************************)
EXTENDS Naturals, Sequences

\* HostLineKind: the live feed, a reply or a record, the last line of a reply.
Kind == {"feed", "reply", "final"}

\* HostOutQ. Lines lost on the feed are only counted, and the count is left out.
EmptyQ == [ring |-> <<>>, stalled |-> FALSE, replyDrops |-> 0]

\* A bug to compare with: room for one line too many.
HasRoomMore(q, room) == Len(q.ring) <= room

HasRoom(q, room) == Len(q.ring) < room

\* The line may wait for room: a reply only while the ring is not known to
\* have stalled, a last line always, the feed never.
MayWait(q, kind) == kind = "final" \/ (kind = "reply" /\ ~q.stalled)

\* The ring took the line.
Taken(q, line) ==
  [q EXCEPT !.ring = Append(@, line), !.stalled = IF line.kind = "feed" THEN @ ELSE FALSE]

\* It did not, at once or after the wait: the line is lost.
Lost(q, kind) ==
  IF kind = "feed" THEN q ELSE [q EXCEPT !.stalled = TRUE, !.replyDrops = @ + 1]
=============================================================================
