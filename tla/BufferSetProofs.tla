-------------------------- MODULE BufferSetProofs ---------------------------
(***************************************************************************)
(* Whatever the sizes of the buffers, the limits of a vectored write and   *)
(* the places where the kernel cuts it, no byte is repeated or lost.       *)
(***************************************************************************)
EXTENDS BufferSet, SequenceTheorems, TLAPS

\* The buffers follow one another to the last byte appended.
Queue ==
    /\ \A i \in 1..Len(bufs) : bufs[i].len > 0
    /\ \A i \in 1..(Len(bufs) - 1) : bufs[i].base + bufs[i].len = bufs[i + 1].base
    /\ bufs # <<>> => bufs[Len(bufs)].base + bufs[Len(bufs)].len = appended + 1

\* Between two groups, sending stopped at the offset into the first buffer.
Resting ==
    pc \in {"out", "loop", "group"} =>
        /\ bufs = <<>> => off = 0 /\ sent = appended
        /\ bufs # <<>> => bufs[1].base + off = sent + 1 /\ off < bufs[1].len

Grouping ==
    pc = "group" =>
        /\ Len(iov) \in 1..Len(bufs)
        /\ \A i \in 1..Len(iov) : iov[i] = bufs[i]
        /\ total > 0
        /\ iov[Len(iov)].base + iov[Len(iov)].len = sent + total + 1

Single ==
    /\ iov[1] = bufs[1]
    /\ iov[1].base + off = sent + 1
    /\ off <= iov[1].len

\* The first done buffers are through, the next one is to its offset.
Vector ==
    /\ done < Len(iov)
    /\ off < bufs[done + 1].len
    /\ iov[done + 1] = Rest(bufs[done + 1], off)
    /\ \A i \in (done + 2)..Len(iov) : iov[i] = bufs[i]
    /\ total > 0
    /\ iov[Len(iov)].base + iov[Len(iov)].len = sent + total + 1

Writing ==
    pc = "write" =>
        /\ Len(iov) \in 1..Len(bufs)
        /\ Len(iov) = 1 => Single
        /\ Len(iov) > 1 => Vector /\ iov[done + 1].base = sent + 1

Skipping ==
    pc = "skip" =>
        /\ Len(iov) \in 2..Len(bufs)
        /\ Vector
        /\ iov[done + 1].base + skip = sent + 1

Inv == TypeOK /\ Queue /\ Resting /\ Grouping /\ Writing /\ Skipping

-----------------------------------------------------------------------------
\* Arithmetic that the provers need of the lengths and the offsets.
LEMMA Lengths ==
    /\ \A n \in Nat : n >= 1 => n = 1 \/ n > 1
    /\ \A k, m \in Nat : k < m => k \in 0..m /\ k + 1 \in 1..m
  OBVIOUS

\* n more bytes of a piece, sent up to offset o, are sent.
LEMMA Advanced ==
    ASSUME NEW b \in Nat, NEW o \in Nat, NEW t \in Nat, NEW l \in Nat, NEW n \in Nat,
           b + o = t + 1, n <= l - o
    PROVE  b + (o + n) = (t + n) + 1 /\ o + n <= l
  OBVIOUS

\* The k bytes written from offset o of a piece reach beyond its end.
LEMMA PassedOver ==
    ASSUME NEW b \in Nat, NEW o \in Nat, NEW t \in Nat, NEW l \in Nat, NEW k \in Nat,
           (b + o) + k = t + 1
    PROVE  (b + l) + (k - (l - o)) = t + 1
  OBVIOUS

\* A piece is an address and a length.
LEMMA Pieces ==
    /\ \A p \in Piece : p.base \in Nat /\ p.len \in Nat
    /\ \A b, n \in Nat : [base |-> b, len |-> n] \in Piece
  BY DEF Piece

\* Rest moves the start of a piece and leaves its end.
LEMMA RestOfPiece ==
    \A p \in Piece, n \in Nat :
        /\ Rest(p, n).base = p.base + n
        /\ Rest(p, n).len = p.len - n
        /\ n <= p.len => Rest(p, n) \in Piece
<1> TAKE p \in Piece, n \in Nat
<1>1. p.base \in Nat /\ p.len \in Nat
  BY Pieces
<1> QED BY <1>1 DEF Rest, Piece

\* The end of a piece is that of its rest.
LEMMA RestEnd ==
    \A p \in Piece, n \in Nat : Rest(p, n).base + Rest(p, n).len = p.base + p.len
<1> TAKE p \in Piece, n \in Nat
<1>1. p.base \in Nat /\ p.len \in Nat
  BY Pieces
<1>2. Rest(p, n).base = p.base + n /\ Rest(p, n).len = p.len - n
  BY RestOfPiece
<1> QED BY <1>1, <1>2

\* Rest of a rest.
LEMMA RestOfRest ==
    \A p \in Piece, m, n \in Nat :
        Rest(p, 0) = p /\ Rest(Rest(p, m), n) = Rest(p, m + n)
<1> TAKE p \in Piece, m, n \in Nat
<1>1. p.base \in Nat /\ p.len \in Nat /\ p = [base |-> p.base, len |-> p.len]
  BY Pieces DEF Piece
<1> QED BY <1>1 DEF Rest

\* What TypeOK says of the entries of the two sequences.
LEMMA Entries ==
    ASSUME TypeOK
    PROVE  /\ Len(bufs) \in Nat /\ Len(iov) \in Nat
           /\ bufs = <<>> <=> Len(bufs) = 0
           /\ \A i \in 1..Len(bufs) : /\ bufs[i] \in Piece
                                      /\ bufs[i].base \in Nat /\ bufs[i].len \in Nat
           /\ \A i \in 1..Len(iov) : /\ iov[i] \in Piece
                                     /\ iov[i].base \in Nat /\ iov[i].len \in Nat
<1>1. /\ \A i \in 1..Len(bufs) : bufs[i] \in Piece
      /\ \A i \in 1..Len(iov) : iov[i] \in Piece
  BY DEF TypeOK
<1> QED BY <1>1, Pieces DEF TypeOK

\* The steps of writev that move no data leave Queue as it is.
LEMMA QueueKept == ASSUME Queue, UNCHANGED <<bufs, appended>> PROVE Queue'
  BY DEF Queue

\* Inv holds when a connection is opened.
LEMMA InitInv == Init => Inv
  BY DEF Init, Inv, TypeOK, Queue, Resting, Grouping, Writing, Skipping

\* Inv is preserved when a buffer is appended.
LEMMA AddInv == ASSUME Inv, SizesAssumption, NEW n \in Sizes, Add(n) PROVE Inv'
<1>0. TypeOK /\ n \in Nat /\ n > 0 /\ appended \in Nat /\ appended' = appended + n
  BY DEF SizesAssumption, Inv, TypeOK, Add
<1>1. [base |-> appended + 1, len |-> n] \in Piece
  BY <1>0, Pieces
<1>2. /\ bufs' \in Seq(Piece) /\ bufs' # <<>> /\ Len(bufs') = Len(bufs) + 1
      /\ \A i \in 1..Len(bufs) : bufs'[i] = bufs[i]
      /\ bufs'[Len(bufs')] = [base |-> appended + 1, len |-> n]
  BY <1>0, <1>1 DEF TypeOK, Add
<1>3. bufs'[Len(bufs')].base = appended + 1 /\ bufs'[Len(bufs')].len = n
  BY <1>2
<1>4. TypeOK'
  BY <1>0, <1>2 DEF TypeOK, Add
<1>5. \A i \in 1..Len(bufs') : bufs'[i].len > 0
  <2> TAKE i \in 1..Len(bufs')
  <2>1. Len(bufs) \in Nat
    BY <1>0, Entries
  <2>2. i \in 1..Len(bufs) \/ i = Len(bufs')
    BY <1>2, <2>1
  <2>3. CASE i \in 1..Len(bufs)
    <3>1. bufs'[i] = bufs[i] /\ bufs[i].len > 0
      BY <2>3, <1>2 DEF Queue, Inv
    <3> QED BY <3>1
  <2>4. CASE i = Len(bufs')
    BY <2>4, <1>0, <1>3
  <2> QED BY <2>2, <2>3, <2>4
<1>6. ASSUME NEW i \in 1..(Len(bufs') - 1)
      PROVE  bufs'[i].base + bufs'[i].len = bufs'[i + 1].base
  <2>1. CASE i < Len(bufs)
    <3>1. Len(bufs) \in Nat
      BY <1>0, Entries
    <3>2. i \in 1..(Len(bufs) - 1) /\ i \in 1..Len(bufs) /\ i + 1 \in 1..Len(bufs)
      BY <2>1, <1>2, <3>1
    <3>3. bufs[i].base + bufs[i].len = bufs[i + 1].base
      BY <3>2 DEF Queue, Inv
    <3>4. bufs'[i] = bufs[i] /\ bufs'[i + 1] = bufs[i + 1]
      BY <1>2, <3>2
    <3> QED BY <3>3, <3>4
  <2>2. CASE i = Len(bufs)
    BY <2>2, <1>0, <1>2, <1>3, Entries DEF Queue, Inv
  <2> QED BY <2>1, <2>2, <1>0, <1>2, Entries
<1>7. Queue'
  BY <1>0, <1>3, <1>5, <1>6 DEF Queue
<1>8. Resting'
  <2>1. CASE bufs = <<>>
    BY <2>1, <1>0, <1>2, <1>3, Entries DEF Resting, Inv, Add
  <2>2. CASE bufs # <<>>
    BY <2>2, <1>0, <1>2, Entries DEF Resting, Inv, Add
  <2> QED BY <2>1, <2>2
<1> QED BY <1>4, <1>7, <1>8 DEF Inv, Grouping, Writing, Skipping, Add

\* Inv is preserved while a group of buffers is put together.
LEMMA GroupInv ==
    ASSUME Inv, FirstOfGroup \/ NextOfGroup \/ StartWriting PROVE Inv'
<1>0. TypeOK /\ Queue /\ Resting /\ Grouping
  BY DEF Inv
<1>1. Queue'
  BY <1>0, QueueKept DEF FirstOfGroup, NextOfGroup, StartWriting
<1>2. CASE FirstOfGroup
  <2>1. 1 \in 1..Len(bufs) /\ bufs[1] \in Piece
    BY <1>0, <1>2, Entries DEF FirstOfGroup
  <2>2. /\ iov' \in Seq(Piece) /\ Len(iov') = 1 /\ iov'[1] = bufs[1]
    BY <1>2, <2>1 DEF FirstOfGroup
  <2>a. /\ bufs[1].base \in Nat /\ bufs[1].len \in Nat
        /\ off < bufs[1].len /\ bufs[1].base + off = sent + 1
    BY <1>0, <1>2, <2>1, Pieces DEF FirstOfGroup, Resting
  <2>b. off \in Nat /\ sent \in Nat /\ total' = bufs[1].len - off
    BY <1>0, <1>2 DEF FirstOfGroup, TypeOK
  <2>c. total' \in Nat /\ total' > 0 /\ bufs[1].base + bufs[1].len = sent + total' + 1
    BY <2>a, <2>b
  <2>3. TypeOK'
    BY <1>0, <1>2, <2>2, <2>c DEF FirstOfGroup, TypeOK
  <2>4. Grouping'
    BY <1>2, <2>1, <2>2, <2>c DEF FirstOfGroup, Grouping
  <2> QED BY <1>0, <1>1, <1>2, <2>3, <2>4
          DEF FirstOfGroup, Inv, Resting, Writing, Skipping
<1>3. CASE NextOfGroup
  <2> DEFINE k == Len(iov)
  <2>1. /\ k \in 1..(Len(bufs) - 1) /\ k + 1 \in 1..Len(bufs)
        /\ \A i \in 1..k : iov[i] = bufs[i]
        /\ iov[k].base + iov[k].len = sent + total + 1
    BY <1>0, <1>3, Entries DEF NextOfGroup, Fits, Grouping
  <2>2. /\ bufs[k + 1].base = sent + total + 1 /\ bufs[k + 1].len > 0
        /\ bufs[k + 1].len \in Nat /\ bufs[k + 1] \in Piece
    <3>1. k \in 1..Len(bufs) /\ k \in 1..k
      BY <1>0, <2>1, Entries
    <3>2. /\ bufs[k + 1].len \in Nat /\ bufs[k + 1] \in Piece
          /\ bufs[k].base + bufs[k].len = bufs[k + 1].base
          /\ bufs[k + 1].len > 0
      BY <1>0, <2>1, <3>1, Entries DEF Queue
    <3>3. iov[k] = bufs[k]
      BY <2>1, <3>1
    <3> QED BY <2>1, <3>2, <3>3
  <2>3. /\ iov' \in Seq(Piece) /\ Len(iov') = k + 1
        /\ \A i \in 1..k : iov'[i] = iov[i]
        /\ iov'[k + 1] = bufs[k + 1]
    BY <1>0, <1>3, <2>1, <2>2 DEF NextOfGroup, TypeOK
  <2>4. TypeOK'
    BY <1>0, <1>3, <2>2, <2>3 DEF NextOfGroup, TypeOK
  <2>5. Grouping'
    <3>1. total \in Nat /\ sent \in Nat /\ total > 0 /\ total' = total + bufs[k + 1].len
      BY <1>0, <1>3 DEF TypeOK, NextOfGroup, Grouping
    <3>2. total' > 0 /\ iov'[k + 1].base + iov'[k + 1].len = sent + total' + 1
      BY <2>2, <2>3, <3>1
    <3>3. \A i \in 1..(k + 1) : iov'[i] = bufs[i]
      BY <1>0, <2>1, <2>3, Entries
    <3> QED BY <1>3, <2>1, <2>3, <3>2, <3>3 DEF NextOfGroup, Grouping
  <2> QED BY <1>0, <1>1, <1>3, <2>4, <2>5
          DEF NextOfGroup, Inv, Resting, Writing, Skipping
<1>4. CASE StartWriting
  <2>0. Len(iov) \in Nat /\ Len(iov) >= 1 /\ 1 \in 1..Len(iov)
    BY <1>0, <1>4, Entries DEF StartWriting, Grouping
  <2>1. /\ Len(iov) \in 1..Len(bufs) /\ \A i \in 1..Len(iov) : iov[i] = bufs[i]
        /\ bufs[1].base + off = sent + 1 /\ off < bufs[1].len /\ off \in Nat
        /\ total > 0 /\ iov[Len(iov)].base + iov[Len(iov)].len = sent + total + 1
        /\ bufs[1] \in Piece /\ bufs[1].base \in Nat /\ bufs[1].len \in Nat
    BY <1>0, <1>4, Entries DEF StartWriting, Grouping, Resting, TypeOK
  <2>2. CASE Len(iov) = 1
    <3>1. iov' = iov
      BY <1>4, <2>2 DEF StartWriting, FromOffset
    <3>2. TypeOK'
      BY <1>0, <1>4, <3>1 DEF StartWriting, TypeOK
    <3>3. Writing'
      <4>1. iov[1] = bufs[1]
        BY <2>0, <2>1
      <4>2. Single'
        BY <1>4, <2>1, <3>1, <4>1 DEF StartWriting, Single
      <4>3. Len(iov') = 1 /\ Len(iov') \in 1..Len(bufs')
        BY <1>4, <2>1, <2>2, <3>1, Zenon DEF StartWriting
      <4> QED BY <4>2, <4>3 DEF Writing
    <3> QED BY <1>1, <1>4, <3>2, <3>3 DEF StartWriting, Inv, Resting, Grouping, Skipping
  <2>3. CASE Len(iov) > 1
    <3>1. Rest(bufs[1], off) \in Piece /\ Rest(bufs[1], off).base = sent + 1
      <4>1. bufs[1] \in Piece /\ off \in Nat /\ bufs[1].base + off = sent + 1
        BY <2>1
      <4>2. off <= bufs[1].len
        BY <2>1
      <4>3. Rest(bufs[1], off) \in Piece /\ Rest(bufs[1], off).base = bufs[1].base + off
        BY <4>1, <4>2, RestOfPiece, Zenon
      <4> QED BY <4>1, <4>3
    <3>2. /\ iov' \in Seq(Piece) /\ Len(iov') = Len(iov)
          /\ iov'[1] = Rest(bufs[1], off) /\ \A i \in 2..Len(iov) : iov'[i] = iov[i]
      BY <1>0, <1>4, <2>1, <2>3, <3>1 DEF StartWriting, FromOffset, TypeOK
    <3>3. TypeOK'
      BY <1>0, <1>4, <3>2 DEF StartWriting, TypeOK
    <3>4. Vector' /\ iov'[done' + 1].base = sent' + 1
      BY <1>0, <1>4, <2>1, <2>3, <3>1, <3>2, Entries DEF StartWriting, Vector
    <3>5. Writing'
      BY <1>4, <2>1, <2>3, <3>2, <3>4 DEF StartWriting, Writing
    <3> QED BY <1>1, <1>4, <3>3, <3>5 DEF StartWriting, Inv, Resting, Grouping, Skipping
  <2>4. Len(iov) = 1 \/ Len(iov) > 1
    BY <2>0, Lengths, Zenon
  <2> QED BY <2>2, <2>3, <2>4
<1> QED BY <1>2, <1>3, <1>4

\* Inv is preserved when the kernel takes a part of the group.
LEMMA PartInv ==
    ASSUME Inv, NEW n \in Nat, n > 0, WriteSingle(n) \/ WriteVec(n) PROVE Inv'
<1>0. TypeOK /\ Queue /\ Writing /\ pc = "write" /\ Len(iov) \in 1..Len(bufs)
  BY DEF Inv, WriteSingle, WriteVec, Writing
<1>1. Queue'
  BY <1>0, QueueKept DEF WriteSingle, WriteVec
<1>2. CASE WriteSingle(n)
  <2>1. TypeOK'
    BY <1>0, <1>2 DEF WriteSingle, TypeOK
  <2>2. Single'
    <3>1. Single /\ 1 \in 1..Len(iov) /\ off \in Nat /\ sent \in Nat
      BY <1>0, <1>2 DEF WriteSingle, Writing, TypeOK
    <3>2. iov[1].base \in Nat /\ iov[1].len \in Nat
      BY <1>0, <3>1, Entries
    <3>3. /\ iov' = iov /\ bufs' = bufs /\ off' = off + n /\ sent' = sent + n
          /\ n <= iov[1].len - off
      BY <1>2 DEF WriteSingle
    <3>4. iov[1].base + (off + n) = (sent + n) + 1 /\ off + n <= iov[1].len
      <4>1. iov[1].base + off = sent + 1
        BY <3>1 DEF Single
      <4>2. off \in Nat /\ sent \in Nat /\ n <= iov[1].len - off
        BY <3>1, <3>3
      <4> QED BY <3>2, <4>1, <4>2, Advanced
    <3> QED BY <3>1, <3>3, <3>4 DEF Single
  <2>3. Writing'
    <3>1. Len(iov') = 1 /\ Len(iov') \in 1..Len(bufs')
      BY <1>0, <1>2, Zenon DEF WriteSingle
    <3> QED BY <2>2, <3>1 DEF Writing
  <2> QED BY <1>1, <1>2, <2>1, <2>3
          DEF WriteSingle, Inv, Resting, Grouping, Writing, Skipping
<1>3. CASE WriteVec(n)
  <2>1. TypeOK'
    BY <1>0, <1>3 DEF WriteVec, TypeOK
  <2>2. Vector' /\ iov'[done' + 1].base + skip' = sent' + 1
    <3>1. /\ Vector /\ iov[done + 1].base = sent + 1
          /\ total \in Nat /\ sent \in Nat
      BY <1>0, <1>3 DEF WriteVec, Writing, TypeOK
    <3>2. /\ iov' = iov /\ bufs' = bufs /\ off' = off /\ done' = done /\ skip' = n
          /\ sent' = sent + n /\ total' = total - n /\ n < total
      BY <1>3 DEF WriteVec
    <3>3. sent' + total' = sent + total /\ total' > 0
      BY <3>1, <3>2
    <3>4. iov'[Len(iov')].base + iov'[Len(iov')].len = sent' + total' + 1
      <4>1. iov[Len(iov)].base + iov[Len(iov)].len = sent + total + 1
        BY <3>1 DEF Vector
      <4>2. sent' + total' + 1 = sent + total + 1
        BY <3>3
      <4> QED BY <3>2, <4>1, <4>2
    <3>5. Vector'
      BY <3>1, <3>2, <3>3, <3>4 DEF Vector
    <3>6. iov'[done' + 1].base + skip' = sent' + 1
      <4>1. iov'[done' + 1].base = sent + 1 /\ skip' = n /\ sent' = sent + n
        BY <3>1, <3>2
      <4> QED BY <3>1, <4>1
    <3> QED BY <3>5, <3>6
  <2> QED BY <1>0, <1>1, <1>3, <2>1, <2>2
          DEF WriteVec, Inv, Resting, Grouping, Writing, Skipping
<1> QED BY <1>2, <1>3

\* The first d buffers are erased.
LEMMA ErasedQueue ==
    ASSUME TypeOK, Queue, NEW d \in 0..Len(bufs), bufs' = Erased(d), appended' = appended
    PROVE  /\ bufs' \in Seq(Piece) /\ Queue'
           /\ Len(bufs') = Len(bufs) - d
           /\ \A i \in 1..Len(bufs') : bufs'[i] = bufs[i + d]
<1>1. /\ bufs' \in Seq(Piece)
      /\ Len(bufs') = Len(bufs) - d
      /\ \A i \in 1..Len(bufs') : bufs'[i] = bufs[i + d]
  BY Entries DEF TypeOK, Erased
<1>2. \A i \in 1..Len(bufs') : i + d \in 1..Len(bufs)
  BY <1>1, Entries
<1>3. \A i \in 1..(Len(bufs') - 1) :
        i \in 1..Len(bufs') /\ i + 1 \in 1..Len(bufs') /\ (i + d) \in 1..(Len(bufs) - 1)
        /\ (i + 1) + d = (i + d) + 1
  BY <1>1, Entries
<1>4. bufs' # <<>> => Len(bufs') \in 1..Len(bufs') /\ bufs # <<>> /\ Len(bufs') + d = Len(bufs)
  BY <1>1, Entries
<1>5. \A i \in 1..Len(bufs') : bufs'[i].len > 0
  BY <1>1, <1>2 DEF Queue
<1>6. \A i \in 1..(Len(bufs') - 1) : bufs'[i].base + bufs'[i].len = bufs'[i + 1].base
  <2> TAKE i \in 1..(Len(bufs') - 1)
  <2>1. bufs'[i] = bufs[i + d] /\ bufs'[i + 1] = bufs[(i + d) + 1]
    BY <1>1, <1>3
  <2>2. bufs[i + d].base + bufs[i + d].len = bufs[(i + d) + 1].base
    BY <1>3, Zenon DEF Queue
  <2> QED BY <2>1, <2>2
<1>7. bufs' # <<>> => bufs'[Len(bufs')].base + bufs'[Len(bufs')].len = appended' + 1
  <2> HAVE bufs' # <<>>
  <2>1. bufs'[Len(bufs')] = bufs[Len(bufs)]
    BY <1>1, <1>4
  <2> QED BY <1>4, <2>1 DEF Queue
<1>8. Queue'
  BY <1>5, <1>6, <1>7 DEF Queue
<1> QED BY <1>1, <1>8

\* Inv is preserved when the kernel has taken all of the group.
LEMMA WrittenInv ==
    ASSUME Inv, pc = "write", GroupWritten, sent' \in Nat,
           sent' + 1 = bufs[Len(iov)].base + bufs[Len(iov)].len
    PROVE  Inv'
<1>0. TypeOK /\ Queue /\ Len(iov) \in 1..Len(bufs)
  BY DEF Inv, Writing
<1>1. /\ bufs' \in Seq(Piece) /\ Queue'
      /\ Len(bufs') = Len(bufs) - Len(iov)
      /\ \A i \in 1..Len(bufs') : bufs'[i] = bufs[i + Len(iov)]
  <2>1. Len(iov) \in 0..Len(bufs) /\ bufs' = Erased(Len(iov)) /\ appended' = appended
    BY <1>0, Entries DEF GroupWritten
  <2> QED BY <1>0, <2>1, ErasedQueue
<1>2. TypeOK'
  BY <1>0, <1>1 DEF GroupWritten, TypeOK
<1>3. Resting'
  <2>1. CASE Len(bufs') = 0
    BY <2>1, <1>0, <1>1, Entries DEF GroupWritten, Queue, Resting, TypeOK
  <2>2. CASE Len(bufs') > 0
    <3>1. Len(iov) \in 1..(Len(bufs) - 1) /\ 1 \in 1..Len(bufs')
      BY <2>2, <1>0, <1>1, Entries
    <3>2. bufs'[1] = bufs[Len(iov) + 1]
      BY <3>1, <1>0, <1>1, Entries
    <3>3. bufs'[1].base = sent' + 1 /\ bufs'[1].len > 0
      BY <3>1, <3>2, <1>0, <1>1 DEF Queue
    <3>4. bufs' # <<>> /\ off' = 0
      BY <2>2, <1>1 DEF GroupWritten
    <3>5. bufs'[1].base + off' = sent' + 1 /\ off' < bufs'[1].len
      BY <3>3, <3>4
    <3> QED BY <3>4, <3>5 DEF Resting
  <2> QED BY <2>1, <2>2, <1>1, <1>0, Entries
<1> QED BY <1>1, <1>2, <1>3 DEF GroupWritten, Inv, Grouping, Writing, Skipping

\* Inv is preserved while write_vec passes over what was written.
LEMMA SkipInv == ASSUME Inv, SkipWritten \/ SkipInto PROVE Inv'
<1> DEFINE d == done + 1
<1>0. /\ TypeOK /\ Queue /\ pc = "skip" /\ Vector /\ Len(iov) \in 2..Len(bufs)
      /\ iov[d].base + skip = sent + 1 /\ d \in 1..Len(iov) /\ d \in 1..Len(bufs)
      /\ done \in Nat /\ skip \in Nat /\ off \in Nat /\ sent \in Nat /\ total \in Nat
  <2>1. /\ TypeOK /\ Queue /\ pc = "skip" /\ Vector /\ Len(iov) \in 2..Len(bufs)
        /\ iov[d].base + skip = sent + 1
    BY DEF Inv, Skipping, SkipWritten, SkipInto
  <2>2. done \in Nat /\ skip \in Nat /\ off \in Nat /\ sent \in Nat /\ total \in Nat
    BY <2>1 DEF TypeOK
  <2>3. Len(iov) \in Nat /\ Len(bufs) \in Nat /\ done < Len(iov)
    BY <2>1, Entries DEF Vector
  <2>4. d \in 1..Len(iov) /\ d \in 1..Len(bufs)
    BY <2>1, <2>2, <2>3
  <2> QED BY <2>1, <2>2, <2>4
<1>1. Queue'
  BY <1>0, QueueKept DEF SkipWritten, SkipInto
<1>2. /\ iov[d] \in Piece /\ iov[d].base \in Nat /\ iov[d].len \in Nat
      /\ bufs[d] \in Piece /\ bufs[d].base \in Nat /\ bufs[d].len \in Nat
      /\ iov[d] = Rest(bufs[d], off)
  <2>1. iov[d] = Rest(bufs[d], off)
    BY <1>0 DEF Vector
  <2> QED BY <1>0, <2>1, Entries, Zenon
<1>3. iov[d].base = bufs[d].base + off /\ iov[d].len = bufs[d].len - off
  <2>1. Rest(bufs[d], off).base = bufs[d].base + off /\ Rest(bufs[d], off).len = bufs[d].len - off
    BY <1>0, <1>2, RestOfPiece, Zenon
  <2> QED BY <1>2, <2>1
<1>4. CASE SkipWritten
  <2>1. d < Len(iov)
    <3>1. /\ iov[d].len <= skip /\ total > 0
          /\ iov[Len(iov)].base + iov[Len(iov)].len = sent + total + 1
      BY <1>0, <1>4 DEF SkipWritten, Passed, Vector
    <3>2. d # Len(iov)
      <4> SUFFICES ASSUME d = Len(iov) PROVE FALSE
        OBVIOUS
      <4>1. iov[d].base + iov[d].len = sent + total + 1
        BY <3>1
      <4>2. /\ iov[d].base + skip = sent + 1 /\ skip \in Nat /\ sent \in Nat
            /\ total \in Nat /\ iov[d].base \in Nat /\ iov[d].len \in Nat
        BY <1>0, <1>2
      <4> QED BY <3>1, <4>1, <4>2
    <3> QED BY <1>0, <3>2
  <2>2. d \in 1..(Len(bufs) - 1) /\ d + 1 \in 1..Len(bufs) /\ d + 1 \in 1..Len(iov)
    <3>1. /\ Len(bufs) \in Nat /\ Len(iov) \in Nat /\ Len(iov) <= Len(bufs)
          /\ d \in Nat /\ d >= 1
      BY <1>0, Entries
    <3> QED BY <2>1, <3>1
  <2>3. /\ iov[d + 1] = bufs[d + 1] /\ bufs[d + 1] \in Piece /\ bufs[d + 1].len > 0
        /\ bufs[d].base + bufs[d].len = bufs[d + 1].base
    <3>1. d + 1 \in (done + 2)..Len(iov)
      BY <2>2, <1>0
    <3>2. iov[d + 1] = bufs[d + 1]
      BY <3>1, <1>0 DEF Vector
    <3>3. bufs[d + 1].len > 0 /\ bufs[d].base + bufs[d].len = bufs[d + 1].base
      BY <2>2, <1>0 DEF Queue
    <3>4. bufs[d + 1] \in Piece
      BY <2>2, <1>0, Entries
    <3> QED BY <3>2, <3>3, <3>4
  <2>4. Rest(bufs[d + 1], 0) = bufs[d + 1]
    BY <2>3, RestOfRest
  <2>5. skip' \in Nat /\ done' = d /\ off' = 0 /\ skip' = skip - iov[d].len
    <3>1. /\ done' = d /\ off' = 0 /\ skip' = skip - iov[d].len /\ iov[d].len <= skip
      BY <1>4 DEF SkipWritten, Passed
    <3>2. skip \in Nat /\ iov[d].len \in Nat
      BY <1>0, <1>2
    <3>3. skip - iov[d].len \in Nat
      BY <3>1, <3>2
    <3> QED BY <3>1, <3>3
  <2>6. TypeOK'
    BY <1>0, <1>4, <2>5 DEF SkipWritten, Passed, TypeOK
  <2>7. Vector'
    BY <1>0, <1>4, <2>1, <2>2, <2>3, <2>4, <2>5 DEF SkipWritten, Vector
  <2>8. iov'[done' + 1].base + skip' = sent' + 1
    <3>1. iov'[done' + 1] = bufs[d + 1] /\ sent' = sent
      BY <1>4, <2>3, <2>5 DEF SkipWritten
    <3>2. bufs[d + 1].base + (skip - iov[d].len) = sent + 1
      <4>1. /\ bufs[d].base \in Nat /\ bufs[d].len \in Nat
            /\ off \in Nat /\ sent \in Nat /\ skip \in Nat
        BY <1>0, <1>2
      <4>2. (bufs[d].base + off) + skip = sent + 1
        BY <1>0, <1>3
      <4>3. (bufs[d].base + bufs[d].len) + (skip - (bufs[d].len - off)) = sent + 1
        BY <4>1, <4>2, PassedOver
      <4> QED BY <1>3, <2>3, <4>3
    <3> QED BY <3>1, <3>2, <2>5
  <2> QED BY <1>0, <1>1, <1>4, <2>6, <2>7, <2>8
          DEF SkipWritten, Inv, Resting, Grouping, Writing, Skipping
<1>5. CASE SkipInto
  <2>1. skip <= iov[d].len /\ off + skip < bufs[d].len
    <3>1. ~(iov[d].len <= skip)
      BY <1>5 DEF SkipInto, Passed
    <3>2. /\ iov[d].len \in Nat /\ bufs[d].len \in Nat /\ skip \in Nat /\ off \in Nat
          /\ iov[d].len = bufs[d].len - off
      BY <1>0, <1>2, <1>3
    <3> QED BY <3>1, <3>2
  <2>2. /\ Rest(iov[d], skip) \in Piece
        /\ Rest(iov[d], skip) = Rest(bufs[d], off + skip)
        /\ Rest(iov[d], skip).base = sent + 1
        /\ Rest(iov[d], skip).base + Rest(iov[d], skip).len = iov[d].base + iov[d].len
    <3>1. /\ Rest(iov[d], skip).base = iov[d].base + skip
          /\ Rest(iov[d], skip).len = iov[d].len - skip
          /\ Rest(iov[d], skip) \in Piece
      BY <1>0, <1>2, <2>1, RestOfPiece, Zenon
    <3>2. Rest(iov[d], skip) = Rest(bufs[d], off + skip)
      <4>1. Rest(Rest(bufs[d], off), skip) = Rest(bufs[d], off + skip)
        <5>1. bufs[d] \in Piece /\ off \in Nat /\ skip \in Nat
          BY <1>0, <1>2
        <5> QED BY <5>1, RestOfRest
      <4> QED BY <1>2, <4>1
    <3>3. /\ iov[d].base \in Nat /\ iov[d].len \in Nat /\ skip \in Nat
          /\ iov[d].base + skip = sent + 1
      BY <1>0, <1>2
    <3>4. Rest(iov[d], skip).base + Rest(iov[d], skip).len = iov[d].base + iov[d].len
      BY <1>2, <3>3, RestEnd
    <3> QED BY <3>1, <3>2, <3>3, <3>4
  <2>3. /\ iov' \in Seq(Piece) /\ Len(iov') = Len(iov) /\ iov'[d] = Rest(iov[d], skip)
        /\ \A i \in 1..Len(iov) : i # d => iov'[i] = iov[i]
    BY <1>0, <1>5, <2>2 DEF SkipInto, TypeOK
  <2>4. TypeOK'
    BY <1>0, <1>5, <2>3 DEF SkipInto, AddedTo, TypeOK
  <2>6. iov'[Len(iov)].base + iov'[Len(iov)].len = sent + total + 1
    <3>1. iov[Len(iov)].base + iov[Len(iov)].len = sent + total + 1
      BY <1>0 DEF Vector
    <3>2. CASE d = Len(iov)
      <4>1. iov'[d].base + iov'[d].len = iov[d].base + iov[d].len
        BY <2>2, <2>3
      <4> QED BY <3>1, <3>2, <4>1
    <3>3. CASE d # Len(iov)
      <4>1. Len(iov) \in 1..Len(iov)
        BY <1>0
      <4> QED BY <3>1, <3>3, <4>1, <2>3
    <3> QED BY <3>2, <3>3
  <2>7. Vector'
    <3>1. /\ done' = done /\ off' = off + skip /\ bufs' = bufs /\ total' = total
          /\ sent' = sent
      BY <1>5 DEF SkipInto, AddedTo
    <3>2. \A i \in (done + 2)..Len(iov) : iov'[i] = bufs[i]
      <4> TAKE i \in (done + 2)..Len(iov)
      <4>1. i \in 1..Len(iov) /\ i # d
        BY <1>0
      <4>2. iov[i] = bufs[i]
        BY <1>0 DEF Vector
      <4> QED BY <4>1, <4>2, <2>3
    <3> QED BY <1>0, <2>1, <2>2, <2>3, <2>6, <3>1, <3>2 DEF Vector
  <2> QED BY <1>0, <1>1, <1>5, <2>2, <2>3, <2>4, <2>7
          DEF SkipInto, Inv, Resting, Grouping, Writing, Skipping
<1> QED BY <1>4, <1>5

\* Inv is preserved when writev gives up for now.
LEMMA WouldBlockInv == ASSUME Inv, WouldBlock PROVE Inv'
<1> DEFINE d == IF Len(iov) = 1 THEN 0 ELSE done
<1>0. /\ TypeOK /\ Queue /\ Writing /\ pc = "write" /\ Len(iov) \in 1..Len(bufs)
      /\ d \in 0..Len(bufs) /\ d + 1 \in 1..Len(bufs)
  <2>1. TypeOK /\ Queue /\ Writing /\ pc = "write" /\ Len(iov) \in 1..Len(bufs)
    BY DEF Inv, WouldBlock, Writing
  <2>2. Len(iov) > 1 => done \in Nat /\ done < Len(iov)
    BY <2>1 DEF Writing, Vector, TypeOK
  <2>3. Len(bufs) \in Nat /\ Len(iov) \in Nat /\ Len(iov) >= 1 /\ Len(iov) <= Len(bufs)
    BY <2>1, Entries
  <2>4. d \in 0..Len(bufs) /\ d + 1 \in 1..Len(bufs)
    <3>1. d \in Nat /\ d < Len(bufs)
      <4>1. CASE Len(iov) = 1
        BY <4>1, <2>3
      <4>2. CASE Len(iov) # 1
        <5>1. done \in Nat /\ done < Len(iov)
          BY <4>2, <2>2, <2>3, Lengths, Zenon
        <5> QED BY <4>2, <5>1, <2>3
      <4> QED BY <4>1, <4>2
    <3> QED BY <3>1, <2>3, Lengths, Zenon
  <2> QED BY <2>1, <2>4
<1>1. /\ bufs' \in Seq(Piece) /\ Queue'
      /\ Len(bufs') = Len(bufs) - d
      /\ \A i \in 1..Len(bufs') : bufs'[i] = bufs[i + d]
  BY <1>0, ErasedQueue DEF WouldBlock
<1>2. TypeOK'
  BY <1>0, <1>1 DEF WouldBlock, TypeOK
<1>3. Len(bufs') > 0 /\ bufs' # <<>> /\ bufs'[1] = bufs[d + 1]
  BY <1>0, <1>1, Entries
<1>4. bufs[d + 1].base + off = sent + 1 /\ off < bufs[d + 1].len
  <2>1. CASE Len(iov) = 1
    BY <2>1, <1>0 DEF WouldBlock, Writing, Single
  <2>2. CASE Len(iov) # 1
    <3>1. Vector /\ iov[done + 1].base = sent + 1
      <4>0. Len(iov) \in Nat /\ Len(iov) >= 1
        BY <1>0, Entries
      <4>1. Len(iov) > 1
        BY <2>2, <4>0
      <4> QED BY <4>1, <1>0 DEF Writing
    <3>2. done + 1 \in 1..Len(bufs) /\ off \in Nat
      BY <2>2, <1>0 DEF TypeOK
    <3>3. bufs[done + 1] \in Piece
      BY <3>2, <1>0, Entries
    <3>4. Rest(bufs[done + 1], off).base = bufs[done + 1].base + off
      BY <3>2, <3>3, RestOfPiece
    <3> QED BY <2>2, <3>1, <3>4 DEF Vector
  <2> QED BY <2>1, <2>2
<1>5. Resting'
  BY <1>3, <1>4 DEF Resting, WouldBlock
<1> QED BY <1>1, <1>2, <1>5 DEF WouldBlock, Inv, Grouping, Writing, Skipping

\* Inv is preserved by every step of the output queue.
LEMMA NextInv == ASSUME SizesAssumption PROVE Inv /\ [Next]_vars => Inv'
<1> SUFFICES ASSUME Inv, [Next]_vars PROVE Inv'
  OBVIOUS
<1>1. ASSUME NEW n \in Sizes, Add(n) PROVE Inv'
  BY <1>1, AddInv
<1>2. CASE Call \/ Return \/ Throw
  <2>1. Queue'
    BY <1>2, QueueKept DEF Inv, Call, Return, Throw
  <2> QED BY <1>2, <2>1, Zenon DEF Call, Return, Throw, Inv, TypeOK, Resting, Grouping, Writing, Skipping
<1>3. CASE FirstOfGroup \/ NextOfGroup \/ StartWriting
  BY <1>3, GroupInv
<1>4. ASSUME NEW n \in 1..MaxBytes, WriteSingle(n) \/ WriteVec(n) PROVE Inv'
  BY <1>4, PartInv DEF SizesAssumption
<1>5. CASE SingleWritten
  <2>1. TypeOK /\ Single /\ Len(iov) = 1 /\ Len(iov) \in 1..Len(bufs)
    BY <1>5 DEF Inv, SingleWritten, Writing
  <2>2. sent' \in Nat /\ sent' + 1 = bufs[Len(iov)].base + bufs[Len(iov)].len
    BY <1>5, <2>1, Entries DEF SingleWritten, Single, TypeOK
  <2> QED BY <1>5, <2>2, WrittenInv DEF SingleWritten
<1>6. CASE WriteVecAll
  <2>1. TypeOK /\ Vector /\ Len(iov) > 1 /\ Len(iov) \in 1..Len(bufs) /\ off \in Nat /\ done \in Nat
    BY <1>6 DEF Inv, WriteVecAll, Writing, TypeOK
  <2>2. iov[Len(iov)].base + iov[Len(iov)].len = bufs[Len(iov)].base + bufs[Len(iov)].len
    <3>1. CASE done + 1 = Len(iov)
      <4>1. iov[Len(iov)] = Rest(bufs[Len(iov)], off) /\ bufs[Len(iov)] \in Piece
        BY <3>1, <2>1, Entries DEF Vector
      <4>2. off \in Nat
        BY <2>1
      <4> QED BY <4>1, <4>2, RestEnd
    <3>2. CASE done + 1 # Len(iov)
      <4>1. Len(iov) \in Nat /\ done < Len(iov)
        BY <2>1, Entries DEF Vector
      <4>2. Len(iov) \in (done + 2)..Len(iov)
        BY <3>2, <4>1, <2>1
      <4>3. iov[Len(iov)] = bufs[Len(iov)]
        BY <4>2, <2>1 DEF Vector
      <4> QED BY <4>3
    <3> QED BY <3>1, <3>2
  <2>3. sent' \in Nat /\ sent' + 1 = bufs[Len(iov)].base + bufs[Len(iov)].len
    BY <1>6, <2>1, <2>2 DEF WriteVecAll, Vector, TypeOK
  <2> QED BY <1>6, <2>3, WrittenInv DEF WriteVecAll
<1>7. CASE SkipWritten \/ SkipInto
  BY <1>7, SkipInv
<1>8. CASE WouldBlock
  BY <1>8, WouldBlockInv
<1>9. CASE UNCHANGED vars
  <2>1. Queue'
    BY <1>9, QueueKept DEF Inv, vars
  <2> QED BY <1>9, <2>1
          DEF vars, Inv, TypeOK, Resting, Grouping, Writing, Skipping, Single, Vector
<1> QED
  BY <1>1, <1>2, <1>3, <1>4, <1>5, <1>6, <1>7, <1>8, <1>9 DEF Next

\* The output queue has its types, whatever the buffers and the limits are.
THEOREM TypeCorrect == Spec => []TypeOK
  BY SizesAssumption, InitInv, NextInv, PTL DEF Spec, Inv

\* Inv says of the state between two calls what ResumeExact does.
LEMMA InvResumeExact == Inv => ResumeExact
<1> SUFFICES ASSUME Inv, pc = "out", bufs # <<>>
             PROVE  Covers(bufs, sent + 1 - off, appended)
  BY DEF Inv, Resting, ResumeExact
<1>1. TypeOK /\ Queue /\ 1 \in 1..Len(bufs) /\ off \in Nat /\ sent \in Nat
  BY Entries DEF Inv, TypeOK
<1>2. bufs[1].base \in Nat /\ bufs[1].base + off = sent + 1
  BY <1>1, Entries DEF Inv, Resting
<1>3. bufs[1].base = sent + 1 - off
  BY <1>1, <1>2
<1> QED BY <1>1, <1>3 DEF Covers, Queue

\* The queue holds exactly the bytes that have not been sent.
THEOREM ResumeCorrect == Spec => []ResumeExact
  BY SizesAssumption, InitInv, NextInv, InvResumeExact, PTL DEF Spec

\* Inv says of the I/O vector what VectorExact does.
LEMMA InvVectorExact == Inv => VectorExact
<1> SUFFICES ASSUME Inv, pc = "write" PROVE VectorExact
  BY DEF VectorExact
<1>0. TypeOK /\ Queue /\ Writing /\ Len(iov) \in 1..Len(bufs)
  BY DEF Inv, Writing
<1>1. CASE Len(iov) = 1
  BY <1>0, <1>1 DEF Writing, Single, VectorExact
<1>2. CASE Len(iov) > 1
  <2> DEFINE v == SubSeq(iov, done + 1, Len(iov))
  <2>1. /\ Vector /\ iov[done + 1].base = sent + 1
        /\ done \in Nat /\ off \in Nat /\ sent \in Nat /\ total \in Nat
    BY <1>0, <1>2 DEF Writing, TypeOK
  <2>0. Len(iov) \in Nat /\ iov \in Seq(Piece) /\ done + 1 \in 1..Len(iov)
    BY <1>0, <2>1 DEF TypeOK, Vector
  <2>2. /\ Len(v) = Len(iov) - done /\ Len(v) \in Nat /\ Len(v) > 0 /\ v # <<>>
        /\ \A i \in 1..Len(v) : v[i] = iov[i + done]
    <3>1. done + 1 \in 1..(Len(iov) + 1) /\ Len(iov) \in ((done + 1) - 1)..Len(iov)
      BY <2>0, <2>1
    <3>2. /\ v \in Seq(Piece) /\ Len(v) = Len(iov) - (done + 1) + 1
          /\ \A i \in 1..(Len(iov) - (done + 1) + 1) : v[i] = iov[(done + 1) + i - 1]
      BY <2>0, <3>1, SubSeqProperties
    <3>3. Len(iov) - (done + 1) + 1 = Len(iov) - done /\ Len(iov) - done \in Nat
          /\ Len(iov) - done > 0
      BY <2>0, <2>1
    <3>4. \A i \in 1..(Len(iov) - done) : (done + 1) + i - 1 = i + done
      BY <2>0, <2>1
    <3> HIDE DEF v
    <3> QED BY <3>2, <3>3, <3>4
  <2>3. ASSUME NEW i \in (done + 1)..(Len(iov) - 1)
        PROVE  iov[i].base + iov[i].len = iov[i + 1].base
    <3>1. /\ i \in 1..Len(bufs) /\ i \in 1..(Len(bufs) - 1) /\ i + 1 \in 1..Len(bufs)
          /\ i + 1 \in (done + 2)..Len(iov)
      BY <1>0, <2>1, Entries
    <3>2. bufs[i].base + bufs[i].len = bufs[i + 1].base /\ iov[i + 1] = bufs[i + 1]
      BY <1>0, <2>1, <3>1 DEF Queue, Vector
    <3>3. bufs[i] \in Piece /\ bufs[i].base \in Nat /\ bufs[i].len \in Nat
      BY <1>0, <3>1, Entries
    <3>4. CASE i = done + 1
      <4>1. iov[i] = Rest(bufs[i], off)
        BY <3>4, <2>1 DEF Vector
      <4>2. off \in Nat /\ bufs[i] \in Piece
        BY <2>1, <3>3
      <4>3. Rest(bufs[i], off).base + Rest(bufs[i], off).len = bufs[i].base + bufs[i].len
        BY <4>2, RestEnd
      <4> QED BY <3>2, <4>1, <4>3
    <3>5. CASE i # done + 1
      <4>1. iov[i] = bufs[i]
        BY <3>5, <2>1, <1>0, Entries DEF Vector
      <4> QED BY <4>1, <3>2
    <3> QED BY <3>4, <3>5
  <2>4. ASSUME NEW i \in 1..(Len(v) - 1)
        PROVE  v[i].base + v[i].len = v[i + 1].base
    <3>1. /\ i \in 1..Len(v) /\ i + 1 \in 1..Len(v)
          /\ i + done \in (done + 1)..(Len(iov) - 1) /\ (i + done) + 1 = (i + 1) + done
      BY <1>0, <2>1, <2>2, Entries
    <3> QED BY <2>2, <2>3, <3>1, Zenon
  <2>5. v[1] = iov[done + 1] /\ v[Len(v)] = iov[Len(iov)]
    <3>1. 1 \in 1..Len(v) /\ Len(v) \in 1..Len(v) /\ Len(v) + done = Len(iov)
      BY <2>0, <2>1, <2>2
    <3> HIDE DEF v
    <3>2. v[1] = iov[1 + done] /\ v[Len(v)] = iov[Len(v) + done]
      BY <2>2, <3>1
    <3> QED BY <2>1, <3>1, <3>2
  <2>6. Covers(v, sent + 1, sent + total)
    <3> HIDE DEF v
    <3> QED BY <2>1, <2>2, <2>4, <2>5 DEF Covers, Vector
  <2> QED BY <1>2, <2>6 DEF VectorExact
<1>3. Len(iov) \in Nat /\ Len(iov) >= 1
  BY <1>0, Entries
<1> QED BY <1>1, <1>2, <1>3

\* Every write goes on exactly where the stream was left.
THEOREM VectorCorrect == Spec => []VectorExact
  BY SizesAssumption, InitInv, NextInv, InvVectorExact, PTL DEF Spec
=============================================================================
