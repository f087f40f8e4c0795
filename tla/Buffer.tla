------------------------------- MODULE Buffer -------------------------------
(***************************************************************************)
(* The buffers of yacul/memory/buffer.{h,cc}: views of reference-counted   *)
(* storage that is copied on write, chained into doubly-linked rings, and  *)
(* the cursors that walk a ring.                                           *)
(*                                                                         *)
(* Buffers are used by one thread.  A call is one action, except that each *)
(* round of a cursor's loop is a step (cursor.todo > 0 while in the call). *)
(* A byte is 0 while nothing was written to it.  text is the value a user  *)
(* gives to each buffer, kept apart from the storage.                      *)
(***************************************************************************)
EXTENDS Integers, Sequences, FiniteSets

LOCAL INSTANCE SequencesExt

CONSTANTS Buffers,       \* Buffer objects
          Inputs,        \* byte strings that are copied in or appended
          Amounts,       \* byte counts of the other calls
          Slack,         \* the 64 bytes EnsureTailroom adds
          MaxBytes       \* bound: bytes a buffer is grown to

Stores == 1..(Cardinality(Buffers) + 1)

VARIABLES phys,     \* the PhysicalBuffers: ref_count_ and the bytes
          alive,    \* constructed Buffers
          view,     \* physical_ (0 is null), headroom() and length_
          next,     \* next_
          prev,     \* prev_
          text,     \* ghost: the value of each buffer
          overran,  \* history: buffers whose growth put bytes outside the new
                    \* storage; what a program does after that is undefined
          cursor,   \* a BufferCursor or BufferRWCursor
          budget    \* bound: calls that are still made

bufferVars == <<phys, alive, view, next, prev, text, overran, cursor, budget>>

NullView == [phys |-> 0, off |-> 0, len |-> 0]
NoCursor == [on |-> FALSE, todo |-> 0]
Freed == [refs |-> 0, bytes |-> <<>>]

Greater(m, n) == IF m > n THEN m ELSE n
Smaller(m, n) == IF m < n THEN m ELSE n

BufferInit(calls) ==
  /\ phys = [p \in Stores |-> Freed]
  /\ alive = {}
  /\ view = [b \in Buffers |-> NullView]
  /\ next = [b \in Buffers |-> b]
  /\ prev = [b \in Buffers |-> b]
  /\ text = [b \in Buffers |-> <<>>]
  /\ overran = {}
  /\ cursor = NoCursor
  /\ budget = calls

-----------------------------------------------------------------------------
(* PhysicalBuffer, as functions of the storage ph *)

Retain(ph, p) == IF p = 0 THEN ph ELSE [ph EXCEPT ![p].refs = @ + 1]

Release(ph, p) ==
  IF p = 0 THEN ph
  ELSE [ph EXCEPT ![p] =
          IF @.refs = 1 THEN Freed ELSE [@ EXCEPT !.refs = @ - 1]]

\* PhysicalBuffer::Create and CreateExternal: where the new storage goes.
Fresh(ph) == CHOOSE p \in Stores : ph[p].refs = 0
Stored(ph, bytes) == [ph EXCEPT ![Fresh(ph)] = [refs |-> 1, bytes |-> bytes]]

Blank(n) == [i \in 1..n |-> 0]

\* The bytes with s written from offset off on; what lies beyond is lost.
Patched(bytes, off, s) ==
  [i \in DOMAIN bytes |->
     IF i > off /\ i <= off + Len(s) THEN s[i - off] ELSE bytes[i]]

Bytes(v) == IF v.phys = 0 THEN <<>>
            ELSE SubSeq(phys[v.phys].bytes, v.off + 1, v.off + v.len)
Show(b) == Bytes(view[b])
Capacity(b) == IF view[b].phys = 0 THEN 0 ELSE Len(phys[view[b].phys].bytes)
Tailroom(b) == Capacity(b) - view[b].off - view[b].len
Shared(b) == view[b].phys # 0 /\ phys[view[b].phys].refs > 1

-----------------------------------------------------------------------------
(* Rings *)

\* The nodes from b on, following next_ until b comes round again.
Chain(b) ==
  LET n == Cardinality(Buffers)
      node[k \in 0..n] == IF k = 0 THEN b ELSE next[node[k - 1]]
      round == {k \in 1..n : node[k] = b}
      len == IF round = {} THEN n
             ELSE CHOOSE k \in round : \A j \in round : k <= j
  IN  [k \in 1..len |-> node[k - 1]]

Ring(b) == {Chain(b)[k] : k \in DOMAIN Chain(b)}
Contents(b) == FlattenSeq([k \in DOMAIN Chain(b) |-> Show(Chain(b)[k])])

\* UnlinkFromRing and MakeSelfRing.
NextWithout(b) == [next EXCEPT ![prev[b]] = next[b], ![b] = b]
PrevWithout(b) == [prev EXCEPT ![next[b]] = prev[b], ![b] = b]

Quiet == cursor.todo = 0

\* b, new or assigned to, leaves its ring and storage for view v of ph.
Become(b, ph, v, t) ==
  /\ phys' = Release(ph, view[b].phys)
  /\ alive' = alive \cup {b}
  /\ view' = [view EXCEPT ![b] = v]
  /\ text' = [text EXCEPT ![b] = t]
  /\ next' = NextWithout(b)
  /\ prev' = PrevWithout(b)
  /\ cursor' = NoCursor

\* b takes new storage holding `bytes`, of which the first len are its view.
BecomeNew(b, bytes, len) ==
  Become(b, Stored(phys, bytes),
         [phys |-> Fresh(phys), off |-> 0, len |-> len], SubSeq(bytes, 1, len))

-----------------------------------------------------------------------------
(* Construction, assignment and destruction *)

CreateBuffer(b, n) == Quiet /\ BecomeNew(b, Blank(n), 0)

\* CopyFrom, and WrapExternal around memory holding s.
CopyFrom(b, s) == Quiet /\ BecomeNew(b, s, Len(s))

\* Buffer(const Buffer &) and its assignment.
Copy(b, src) ==
  /\ Quiet /\ src \in alive /\ b # src
  /\ Become(b, Retain(phys, view[src].phys), view[src], text[src])

Slice(b, src, off, len) ==
  /\ Quiet /\ src \in alive /\ b # src
  /\ off + len <= view[src].len
  /\ Become(b, Retain(phys, view[src].phys),
            [phys |-> view[src].phys, off |-> view[src].off + off, len |-> len],
            SubSeq(text[src], off + 1, off + len))

Clone(b, src) ==
  /\ Quiet /\ src \in alive /\ b # src
  /\ IF view[src].phys = 0 \/ view[src].len = 0
       THEN Become(b, phys, NullView, <<>>)
       ELSE BecomeNew(b, Show(src), view[src].len)

\* CoalesceChain, and ToVector for the bytes it gathers.
CoalesceChain(b, src) ==
  /\ Quiet /\ src \in alive /\ b # src
  /\ Len(Contents(src)) <= MaxBytes
  /\ IF Contents(src) = <<>>
       THEN Become(b, phys, NullView, <<>>)
       ELSE BecomeNew(b, Contents(src), Len(Contents(src)))

\* Mutant: the neighbours go on pointing at the moved-from node.
Steal_OneWay(b, src) ==
  /\ next' = [NextWithout(b) EXCEPT ![b] = NextWithout(b)[src], ![src] = src]
  /\ prev' = [PrevWithout(b) EXCEPT ![b] = PrevWithout(b)[src], ![src] = src]

\* StealRingPosition, after b has left its own ring.
Steal(b, src) ==
  LET n == NextWithout(b)
      p == PrevWithout(b)
  IN  /\ next' = IF n[src] = src THEN n
                 ELSE [n EXCEPT ![b] = n[src], ![p[src]] = b, ![src] = src]
      /\ prev' = IF n[src] = src THEN p
                 ELSE [p EXCEPT ![b] = p[src], ![n[src]] = b, ![src] = src]

\* Buffer(Buffer &&) and its assignment: the node and its place in the ring.
MoveBuffer(b, src) ==
  /\ Quiet /\ src \in alive /\ b # src
  /\ phys' = Release(phys, view[b].phys)
  /\ alive' = alive \cup {b}
  /\ view' = [view EXCEPT ![b] = view[src], ![src] = NullView]
  /\ text' = [text EXCEPT ![b] = text[src], ![src] = <<>>]
  /\ Steal(b, src)
  /\ cursor' = NoCursor

\* The nodes die: each leaves its storage.
Bury(nodes) ==
  /\ alive' = alive \ nodes
  /\ phys' = [p \in Stores |->
       LET held == Cardinality({b \in nodes : view[b].phys = p})
       IN  IF held > 0 /\ held = phys[p].refs THEN Freed
           ELSE [phys[p] EXCEPT !.refs = @ - held]]
  /\ view' = [b \in Buffers |-> IF b \in nodes THEN NullView ELSE view[b]]
  /\ text' = [b \in Buffers |-> IF b \in nodes THEN <<>> ELSE text[b]]
  /\ cursor' = NoCursor

\* ~Buffer
Delete(b) ==
  /\ Quiet /\ b \in alive
  /\ Bury({b})
  /\ next' = NextWithout(b)
  /\ prev' = PrevWithout(b)

DestroyChain(b) ==
  /\ Quiet /\ b \in alive
  /\ Bury(Ring(b))
  /\ next' = [c \in Buffers |-> IF c \in Ring(b) THEN c ELSE next[c]]
  /\ prev' = [c \in Buffers |-> IF c \in Ring(b) THEN c ELSE prev[c]]

-----------------------------------------------------------------------------
(* Chains *)

Relink == cursor' = NoCursor /\ UNCHANGED <<phys, alive, view, text>>

\* AppendChain and PrependChain: the same four links, since the place before
\* a node of a ring is the end of the chain that starts at it.
AppendChain(b, other) ==
  /\ Quiet /\ b \in alive /\ other \in alive \ Ring(b)
  /\ next' = [next EXCEPT ![prev[b]] = other, ![prev[other]] = b]
  /\ prev' = [prev EXCEPT ![other] = prev[b], ![b] = prev[other]]
  /\ Relink

Unlink(b) ==
  /\ Quiet /\ b \in alive /\ next[b] # b
  /\ next' = NextWithout(b)
  /\ prev' = PrevWithout(b)
  /\ Relink

\* SplitChainAfter: the predecessor is taken for the head of the left ring.
SplitChainAfter(b) ==
  LET rh == next[b]
      lh == prev[b]
      rt == prev[lh]
  IN  /\ Quiet /\ b \in alive /\ rh # b
      /\ next' = [next EXCEPT ![b] = lh, ![rt] = rh]
      /\ prev' = [prev EXCEPT ![lh] = b, ![rh] = rt]
      /\ Relink

-----------------------------------------------------------------------------
(* Mutation of one node *)

Reshape(b, ph, v, t) ==
  /\ phys' = ph
  /\ view' = [view EXCEPT ![b] = v]
  /\ text' = [text EXCEPT ![b] = t]
  /\ cursor' = NoCursor
  /\ UNCHANGED <<alive, next, prev>>

TrimStart(b, n) ==
  /\ Quiet /\ b \in alive /\ n <= view[b].len
  /\ Reshape(b, phys, [view[b] EXCEPT !.off = @ + n, !.len = @ - n],
             SubSeq(text[b], n + 1, Len(text[b])))

TrimEnd(b, n) ==
  /\ Quiet /\ b \in alive /\ n <= view[b].len
  /\ Reshape(b, phys, [view[b] EXCEPT !.len = @ - n],
             SubSeq(text[b], 1, Len(text[b]) - n))

\* Prepend and Append take in bytes as they find them.
Expose(b, v) == Reshape(b, phys, v, Bytes(v))

PrependBytes(b, n) ==
  /\ Quiet /\ b \in alive /\ n <= view[b].off
  /\ Expose(b, [view[b] EXCEPT !.off = @ - n, !.len = @ + n])

AppendBytes(b, n) ==
  /\ Quiet /\ b \in alive /\ n <= Tailroom(b)
  /\ Expose(b, [view[b] EXCEPT !.len = @ + n])

\* The storage and the view once b has moved to private storage of size cap.
Private(b, cap) ==
  LET moved == Patched(Blank(cap), view[b].off, Show(b))
  IN  [ph |-> Release(Stored(phys, moved), view[b].phys),
       v |-> [view[b] EXCEPT !.phys = Fresh(phys)]]

Same(b) == [ph |-> phys, v |-> view[b]]

\* Mutant: room in shared storage is used as if it were the node's own.
WithTailroom_Shared(b, n) ==
  IF Tailroom(b) >= n THEN Same(b)
  ELSE Private(b, Greater(view[b].len + n, ((view[b].len + n) * 3) \div 2 + Slack))

\* EnsureTailroom
NewSize(b, n) ==
  Greater(view[b].len + n, ((view[b].len + n) * 3) \div 2 + Slack)
WithTailroom(b, n) ==
  IF ~Shared(b) /\ Tailroom(b) >= n THEN Same(b) ELSE Private(b, NewSize(b, n))

\* The headroom is carried over, but the new size does not count it: a view
\* that ends at `len` reaches past the new storage.
Overrun(b, n, len) ==
  overran' = IF (Shared(b) \/ Tailroom(b) < n) /\ view[b].off + len > NewSize(b, n)
             THEN overran \cup {b} ELSE overran

\* What is written past the storage is not in it.
AppendData(b, s) ==
  LET g == WithTailroom(b, Len(s)) IN
  /\ Quiet /\ b \in alive
  /\ view[b].len + Len(s) <= MaxBytes
  /\ Reshape(b, [g.ph EXCEPT ![g.v.phys].bytes =
                   Patched(@, g.v.off + g.v.len, s)],
             [g.v EXCEPT !.len = @ + Len(s)], text[b] \o s)
  /\ Overrun(b, Len(s), view[b].len + Len(s))

\* EnsureTailroom as a call of its own.
EnsureTailroom(b, n) ==
  LET g == WithTailroom(b, n) IN
  /\ Quiet /\ b \in alive
  /\ view[b].len + n <= MaxBytes
  /\ Reshape(b, g.ph, g.v, text[b])
  /\ Overrun(b, n, view[b].len)

Reserve(b, cap) ==
  /\ Capacity(b) < cap \/ Shared(b)
  /\ EnsureTailroom(b, Greater(cap - view[b].len, 0))

\* CowDetach
Detached(b) == IF Shared(b) THEN Private(b, Capacity(b)) ELSE Same(b)

\* writable_data() and a write of one byte through the pointer.
WritableData(b, i, byte) ==
  LET d == Detached(b) IN
  /\ Quiet /\ b \in alive /\ i \in 1..view[b].len
  /\ Reshape(b, [d.ph EXCEPT ![d.v.phys].bytes[d.v.off + i] = byte],
             d.v, [text[b] EXCEPT ![i] = byte])

-----------------------------------------------------------------------------
(* Cursors.  pos is a ghost: the bytes that were passed since the start.   *)

Cursor(b) ==
  /\ Quiet /\ b \in alive
  /\ cursor' = [on |-> TRUE, head |-> b, cur |-> b, off |-> 0,
                todo |-> 0, byte |-> 0, pos |-> 0]
  /\ UNCHANGED <<phys, alive, view, next, prev, text>>

ResetCursor ==
  /\ cursor.on /\ Quiet
  /\ cursor' = [cursor EXCEPT !.cur = cursor.head, !.off = 0, !.pos = 0]
  /\ UNCHANGED <<phys, alive, view, next, prev, text>>

\* Read and Skip (byte = 0) and Write of `byte`, n times: the call.
CursorCall(n, byte) ==
  /\ cursor.on /\ Quiet /\ n > 0
  /\ cursor' = [cursor EXCEPT !.todo = n, !.byte = byte]
  /\ UNCHANGED <<phys, alive, view, next, prev, text>>

AtEnd == cursor.off = view[cursor.cur].len /\ next[cursor.cur] = cursor.head

AdvanceIfExhausted(off, len) ==
  IF off = len /\ next[cursor.cur] # cursor.head
    THEN [cursor EXCEPT !.cur = next[cursor.cur], !.off = 0]
    ELSE [cursor EXCEPT !.off = off]

\* One round of the loop of Read, Skip or Write.
CursorStep ==
  LET b == cursor.cur
      chunk == Smaller(view[b].len - cursor.off, cursor.todo)
      new == [i \in 1..chunk |-> cursor.byte]
      d == Detached(b)
  IN  /\ cursor.todo > 0 /\ ~AtEnd
      /\ cursor' = [AdvanceIfExhausted(cursor.off + chunk, view[b].len)
                      EXCEPT !.todo = @ - chunk, !.pos = @ + chunk]
      /\ IF cursor.byte = 0 THEN UNCHANGED <<phys, view, text>>
         ELSE /\ phys' = IF chunk = 0 THEN d.ph
                         ELSE [d.ph EXCEPT ![d.v.phys].bytes =
                                 Patched(@, d.v.off + cursor.off, new)]
              /\ view' = [view EXCEPT ![b] = d.v]
              /\ text' = [text EXCEPT ![b] = Patched(@, cursor.off, new)]
      /\ UNCHANGED <<alive, next, prev>>

\* The loop ends short: the chain is exhausted.
CursorShort ==
  /\ cursor.todo > 0 /\ AtEnd
  /\ cursor' = [cursor EXCEPT !.todo = 0]
  /\ UNCHANGED <<phys, alive, view, next, prev, text>>

\* TotalLength()
TotalLength ==
  LET tail[b \in Buffers, k \in 0..Cardinality(Buffers)] ==
        IF b = cursor.head \/ k = 0 THEN 0 ELSE view[b].len + tail[next[b], k - 1]
  IN  view[cursor.cur].len - cursor.off
        + tail[next[cursor.cur], Cardinality(Buffers)]

\* Peek(n): the bytes it returns.  A round that finds a node exhausted moves
\* on, copies nothing, and ends the loop at the head.
Peek(n) ==
  LET rounds == n + Cardinality(Buffers) + 1
      st[k \in 0..rounds] ==
        IF k = 0 THEN [cur |-> cursor.cur, off |-> cursor.off, out |-> <<>>,
                       stop |-> FALSE]
        ELSE LET s == st[k - 1]
                 avail == view[s.cur].len - s.off
                 chunk == Smaller(avail, n - Len(s.out))
             IN  IF s.stop \/ Len(s.out) = n THEN s
                 ELSE IF avail = 0
                   THEN [s EXCEPT !.cur = next[@], !.off = 0,
                                  !.stop = next[s.cur] = cursor.head]
                 ELSE [s EXCEPT !.off = @ + chunk,
                         !.out = @ \o SubSeq(Show(s.cur), s.off + 1, s.off + chunk)]
  IN  st[rounds].out

\* Calls that give a buffer its storage and its place.
NodeCall ==
  /\ UNCHANGED overran
  /\ \E b \in Buffers :
       \/ \E n \in Amounts : CreateBuffer(b, n)
       \/ \E s \in Inputs : CopyFrom(b, s)
       \/ \E src \in Buffers : Copy(b, src) \/ MoveBuffer(b, src)
       \/ Delete(b)

\* Calls on the bytes of a single buffer; some make room.
GrowingCall ==
  \E b \in Buffers :
    \/ \E s \in Inputs : AppendData(b, s)
    \/ \E n \in Amounts : EnsureTailroom(b, n) \/ Reserve(b, n)

BytesCall ==
  \/ GrowingCall
  \/ /\ UNCHANGED overran
     /\ \E b \in Buffers :
          \/ \E src \in Buffers, off, len \in 0..1 : Slice(b, src, off, len)
          \/ \E src \in Buffers : Clone(b, src)
          \/ \E n \in Amounts :
               \/ TrimStart(b, n)
               \/ TrimEnd(b, n)
               \/ PrependBytes(b, n)
               \/ AppendBytes(b, n)
               \/ WritableData(b, n, 2)

\* Calls on rings and cursors.
RingCall ==
  /\ UNCHANGED overran
  /\ \/ \E b \in Buffers :
          \/ \E src \in Buffers : AppendChain(b, src) \/ CoalesceChain(b, src)
          \/ DestroyChain(b)
          \/ Unlink(b)
          \/ SplitChainAfter(b)
          \/ Cursor(b)
     \/ ResetCursor
     \/ \E n \in Amounts, byte \in {0, 2} : CursorCall(n, byte)

\* A call of one of the given kinds, or a round of the call in progress.
\* Nothing is called once bytes were written outside their storage.
BufferStep(call) ==
  \/ budget > 0 /\ overran = {} /\ call /\ budget' = budget - 1
  \/ (CursorStep \/ CursorShort) /\ UNCHANGED <<overran, budget>>

BufferNext == BufferStep(NodeCall \/ BytesCall \/ RingCall)

-----------------------------------------------------------------------------
(* Properties *)

\* The state has its types, and every data pointer points into its
\* PhysicalBuffer (buffer.h:33), with one exception that the code has:
\* EnsureTailroom, Reserve and AppendData carry the headroom into storage that
\* is sized without it (buffer.cc:241-244), so that a growth behind a large
\* headroom writes past the allocation.  Only such a growth does, and the
\* buffers it did it to are exactly those whose view reaches outside.
BufferTypeOK ==
  /\ alive \subseteq Buffers
  /\ next \in [Buffers -> Buffers] /\ prev \in [Buffers -> Buffers]
  /\ \A b \in Buffers :
       /\ view[b].phys \in Stores \cup {0}
       /\ b \in overran <=>
            /\ view[b].phys # 0
            /\ view[b].off + view[b].len > Len(phys[view[b].phys].bytes)

\* A reference count is the number of buffers on the storage, so storage is
\* freed with its last user and neither before nor after.
RefsExact ==
  \A p \in Stores :
    phys[p].refs = Cardinality({b \in alive : view[b].phys = p})

\* Copy-on-write (buffer.h:131) keeps values apart: whatever is sliced,
\* shared, moved, grown or written through one buffer, every buffer shows
\* exactly the bytes that were put into it.  A buffer whose growth left its
\* storage is excepted, see BufferTypeOK; the others are right even then.
ShowsItsText == \A b \in alive \ overran : Show(b) = text[b]

\* Every constructed buffer is in a closed ring of constructed buffers, and
\* next_ and prev_ are inverse, after any sequence of splices, splits, moves
\* and deletions.
RingsClosed ==
  \A b \in Buffers :
    /\ prev[next[b]] = b /\ next[prev[b]] = b
    /\ b \in alive => next[b] \in alive
    /\ b \notin alive => next[b] = b

\* A cursor is where the bytes it has passed say, also across empty nodes;
\* TotalLength() counts the bytes ahead, Peek returns the next ones and a
\* call falls short only at the end of the chain.
CursorSeesChain ==
  cursor.on =>
    LET all == Contents(cursor.head)
        left == Len(all) - cursor.pos
    IN  /\ TotalLength = left
        /\ \A n \in 0..(left + 1) :
             Peek(n) = SubSeq(all, cursor.pos + 1, cursor.pos + Smaller(n, left))
        /\ (AtEnd => left = 0)

\* The storage and the rings are sound after any sequence of calls, up to the
\* growth behind a large headroom that BufferTypeOK excepts.
BufferIntact == BufferTypeOK /\ RefsExact /\ RingsClosed

\* What is read is what was written, through the buffer and through a cursor,
\* but for a buffer whose growth left its storage (BufferTypeOK).
ReadsItsText == ShowsItsText /\ CursorSeesChain
=============================================================================
