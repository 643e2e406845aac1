----------------------------- MODULE BufferSet ------------------------------
(***************************************************************************)
(* The output queue of a connection: buffers go out in vectored writes,    *)
(* each of which the kernel may cut short at any byte.                     *)
(*                                                                         *)
(* The bytes given to a connection are numbered from 1 in the order they   *)
(* are appended, so a buffer, and an entry of the I/O vector, is the       *)
(* number of its first byte and its length, as iov_base and iov_len are an *)
(* address and a length.  The loops of writev and its helpers are steps.   *)
(***************************************************************************)
EXTENDS Integers, Sequences

CONSTANTS
    Sizes,          \* the sizes of the buffers appended
    IovMax,         \* IOV_MAX
    WritevMax,      \* WRITEV_MAX_SIZE
    MaxBytes        \* bound: bytes appended to a connection

ASSUME SizesAssumption ==
    /\ Sizes \subseteq Nat \ {0}
    /\ IovMax \in Nat \ {0}
    /\ WritevMax \in Nat
    /\ MaxBytes \in Nat

VARIABLES
    bufs,           \* _buf_arr
    off,            \* _1st_buf_offset
    pc,             \* where writev is: see TypeOK
    iov,            \* the I/O vector
    total,          \* bulk_write_size, then what is left of it
    done,           \* written_iov
    skip,           \* nwritten, less the entries passed over
    appended,       \* bytes appended since the connection was opened
    sent            \* bytes the kernel has taken of them

vars == <<bufs, off, pc, iov, total, done, skip, appended, sent>>

Piece == [base : Nat, len : Nat]

TypeOK ==
    /\ bufs \in Seq(Piece)
    /\ off \in Nat
    /\ pc \in {"out", "loop", "group", "write", "skip", "thrown"}
    /\ iov \in Seq(Piece)
    /\ total \in Nat
    /\ done \in Nat
    /\ skip \in Nat
    /\ appended \in Nat
    /\ sent \in Nat

Init ==
    /\ bufs = <<>> /\ off = 0
    /\ pc = "out"
    /\ iov = <<>> /\ total = 0 /\ done = 0 /\ skip = 0
    /\ appended = 0 /\ sent = 0

\* What is left of p after its first n bytes.
Rest(p, n) == [base |-> p.base + n, len |-> p.len - n]

Erased(n) == SubSeq(bufs, n + 1, Len(bufs))

-----------------------------------------------------------------------------
Add(n) ==
    /\ pc = "out"
    /\ appended + n <= MaxBytes
    /\ bufs' = Append(bufs, [base |-> appended + 1, len |-> n])
    /\ appended' = appended + n
    /\ UNCHANGED <<off, pc, iov, total, done, skip, sent>>

\* writev is called.
Call ==
    /\ pc = "out"
    /\ pc' = "loop"
    /\ UNCHANGED <<bufs, off, iov, total, done, skip, appended, sent>>

Return ==
    /\ pc = "loop"
    /\ bufs = <<>>
    /\ pc' = "out"
    /\ UNCHANGED <<bufs, off, iov, total, done, skip, appended, sent>>

\* next_group_to_write.
FirstOfGroup ==
    /\ pc = "loop"
    /\ bufs # <<>>
    /\ iov' = <<bufs[1]>>
    /\ total' = bufs[1].len - off
    /\ pc' = "group"
    /\ UNCHANGED <<bufs, off, done, skip, appended, sent>>

Fits ==
    /\ Len(iov) < Len(bufs)
    /\ Len(iov) < IovMax
    /\ total + bufs[Len(iov) + 1].len <= WritevMax

NextOfGroup ==
    /\ pc = "group"
    /\ Fits
    /\ iov' = Append(iov, bufs[Len(iov) + 1])
    /\ total' = total + bufs[Len(iov) + 1].len
    /\ UNCHANGED <<bufs, off, pc, done, skip, appended, sent>>

FromStart(v) == v

\* The first entry for write_vec starts at the offset; write_single adds the
\* offset to the address each time.
FromOffset(v) == IF Len(v) = 1 THEN v ELSE [v EXCEPT ![1] = Rest(@, off)]

StartWriting ==
    /\ pc = "group"
    /\ ~Fits
    /\ iov' = FromOffset(iov)
    /\ done' = 0
    /\ pc' = "write"
    /\ UNCHANGED <<bufs, off, total, skip, appended, sent>>

-----------------------------------------------------------------------------
\* All of the group is written: its buffers are erased.
GroupWritten ==
    /\ bufs' = Erased(Len(iov))
    /\ off' = 0
    /\ pc' = "loop"
    /\ UNCHANGED <<iov, total, done, skip, appended>>

\* write_single.
WriteSingle(n) ==
    /\ pc = "write"
    /\ Len(iov) = 1
    /\ off < iov[1].len
    /\ n <= iov[1].len - off
    /\ off' = off + n
    /\ sent' = sent + n
    /\ UNCHANGED <<bufs, pc, iov, total, done, skip, appended>>

SingleWritten ==
    /\ pc = "write"
    /\ Len(iov) = 1
    /\ off >= iov[1].len
    /\ GroupWritten
    /\ UNCHANGED sent

\* write_vec, when the kernel takes all that is left.
WriteVecAll ==
    /\ pc = "write"
    /\ Len(iov) > 1
    /\ sent' = sent + total
    /\ GroupWritten

\* write_vec, when it takes n bytes.
WriteVec(n) ==
    /\ pc = "write"
    /\ Len(iov) > 1
    /\ n < total
    /\ sent' = sent + n
    /\ total' = total - n
    /\ skip' = n
    /\ pc' = "skip"
    /\ UNCHANGED <<bufs, off, iov, done, appended>>

PassedEarly(p) == p.len <= skip + 1

\* Entry p of the vector is written to its end.
Passed(p) == p.len <= skip

\* The offset of a buffer that is written to its end goes with it.
SkipWritten ==
    /\ pc = "skip"
    /\ Passed(iov[done + 1])
    /\ skip' = skip - iov[done + 1].len
    /\ done' = done + 1
    /\ off' = 0
    /\ UNCHANGED <<bufs, pc, iov, total, appended, sent>>

ReplacedBy(n) == n

\* write_vec may be cut short in the same buffer twice.
AddedTo(n) == off + n

SkipInto ==
    /\ pc = "skip"
    /\ ~Passed(iov[done + 1])
    /\ iov' = [iov EXCEPT ![done + 1] = Rest(@, skip)]
    /\ off' = AddedTo(skip)
    /\ pc' = "write"
    /\ UNCHANGED <<bufs, total, done, skip, appended, sent>>

\* The kernel takes no more now (EAGAIN): the buffers that are through are
\* erased and writev returns false.
WouldBlock ==
    /\ pc = "write"
    /\ Len(iov) = 1 => off < iov[1].len
    /\ bufs' = Erased(IF Len(iov) = 1 THEN 0 ELSE done)
    /\ pc' = "out"
    /\ UNCHANGED <<off, iov, total, done, skip, appended, sent>>

\* The connection breaks: on_error throws out of writev.
Throw ==
    /\ pc = "write"
    /\ Len(iov) = 1 => off < iov[1].len
    /\ pc' = "thrown"
    /\ UNCHANGED <<bufs, off, iov, total, done, skip, appended, sent>>

Next ==
    \/ \E n \in Sizes : Add(n)
    \/ Call \/ Return
    \/ FirstOfGroup \/ NextOfGroup \/ StartWriting
    \/ \E n \in 1..MaxBytes : WriteSingle(n) \/ WriteVec(n)
    \/ SingleWritten \/ WriteVecAll
    \/ SkipWritten \/ SkipInto
    \/ WouldBlock \/ Throw

\* The output of a client, whose connection is never used again.
Spec == Init /\ [][Next]_vars

\* clear, by which a server is closed, to be connected anew.
Clear ==
    /\ pc \in {"out", "thrown"}
    /\ bufs' = <<>>
    /\ pc' = "out"
    /\ appended' = 0
    /\ sent' = 0
    /\ UNCHANGED <<off, iov, total, done, skip>>

\* The output of a server.
ServerSpec == Init /\ [][Next \/ Clear]_vars

-----------------------------------------------------------------------------
(***************************************************************************)
(* Properties.                                                             *)
(***************************************************************************)

\* The bytes of the pieces of v are those numbered from..to, in order.
Covers(v, from, to) ==
    /\ v # <<>>
    /\ v[1].base = from
    /\ \A i \in 1..(Len(v) - 1) : v[i].base + v[i].len = v[i + 1].base
    /\ v[Len(v)].base + v[Len(v)].len = to + 1

\* Whenever writev is not at work, its buffers hold every byte that has been
\* appended and not yet sent, each once and in order, and the offset into the
\* first is where sending stopped.
ResumeExact ==
    pc = "out" =>
        \/ bufs = <<>> /\ sent = appended
        \/ Covers(bufs, sent + 1 - off, appended)

\* What is handed to the kernel is always the next bytes of the stream, and
\* as many as write_vec takes for the whole: a write that is cut short, even
\* several times and in the same buffer, neither repeats nor loses a byte.
VectorExact ==
    pc = "write" =>
        \/ Len(iov) = 1 /\ iov[1].base + off = sent + 1 /\ off <= iov[1].len
        \/ Len(iov) > 1 /\ Covers(SubSeq(iov, done + 1, Len(iov)), sent + 1, sent + total)
=============================================================================
