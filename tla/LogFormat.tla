----------------------------- MODULE LogFormat -----------------------------
(***************************************************************************)
(* The on-file format of the transaction log of libjr/io: how an entry is  *)
(* laid out, how the writer keeps an entry inside one block, and how the   *)
(* reader finds the next entry.                                            *)
(*                                                                         *)
(* A file image is a sequence of cells.  A cell stands for a run of bytes  *)
(* of one entry: a header cell carries the fields of the entry header, a   *)
(* body cell what the entry stores after it.  Zero is what the file system *)
(* returns for bytes that were skipped by a seek and never written.        *)
(* Offsets are counted in cells from 0, as jr_file_seek does.              *)
(***************************************************************************)
EXTENDS Integers, Sequences, SequencesExt

CONSTANTS HdrLen,      (* sizeof (jr_LogEntryHeaderStruct), in cells        *)
          LogHdrLen,   (* jr_LogHeaderEntryLength (), in cells              *)
          BlockSize    (* log_info->block_size, in cells                    *)

ASSUME FormatAssumption ==
  /\ HdrLen \in Nat \ {0}
  /\ LogHdrLen \in Nat /\ HdrLen < LogHdrLen
  /\ BlockSize \in Nat /\ LogHdrLen <= BlockSize

\* jr_LogEntryType, reduced to what the log itself looks at: the type number,
\* the saved length, the time field and one value for all the data.
Entry(type, len, time, val) == [type |-> type, len |-> len, time |-> time, val |-> val]

\* Values of cells that hold no data, and of bodies that make no sense.
Nothing == "nothing"
Garbage == "garbage"

\* jr_LOG_HEADER_ENTRY with the is_synced field of jr_LogHeaderStruct as value;
\* the two transaction entries have neither ints nor pointers.
HeaderEntry(start_time, is_synced) == Entry("header", LogHdrLen, start_time, is_synced)
BeginEntry  == Entry("begin", HdrLen, 0, Nothing)
CommitEntry == Entry("commit", HdrLen, 0, Nothing)

\* jr_LOG_PAD_ENTRY: the time field holds the number of cells to the boundary.
PadEntry(size) == Entry("pad", HdrLen, size, Nothing)

Zero == [k |-> -1, type |-> "zero", len |-> 0, time |-> 0, val |-> Nothing]

\* The k-th cell of an entry: header cells hold the header's fields, body
\* cells the value.
Cell(e, k) ==
  IF k < HdrLen THEN [k |-> k, type |-> e.type, len |-> e.len, time |-> e.time, val |-> Nothing]
                ELSE [k |-> k, type |-> "body", len |-> 0, time |-> 0, val |-> e.val]

Cells(e) == [i \in 1..e.len |-> Cell(e, i - 1)]

----------------------------------------------------------------------------
(* Block arithmetic.                                                       *)

SpaceInBlock(offset) == BlockSize - (offset % BlockSize)

\* Where the next entry of length len goes when the log ends at offset.
NextLogEntryOffset(offset, len) ==
  IF offset % BlockSize # 0 /\ SpaceInBlock(offset) < len
  THEN offset + SpaceInBlock(offset)
  ELSE offset

\* The cells written on the way there: a pad entry when a header fits into
\* the rest of the block, nothing otherwise (the writer only seeks).
PadCells(offset, len) ==
  IF NextLogEntryOffset(offset, len) # offset /\ HdrLen <= SpaceInBlock(offset)
  THEN Cells(PadEntry(SpaceInBlock(offset)))
  ELSE << >>

----------------------------------------------------------------------------
(* Writing to an image.                                                    *)

\* Skipped bytes read as zeros.
ZeroFilled(f, n) == IF n <= Len(f) THEN f ELSE f \o [i \in 1..n - Len(f) |-> Zero]

\* Image f with cells written at offset.
Overlay(f, offset, cells) ==
  IF cells = << >> THEN f
  ELSE SubSeq(ZeroFilled(f, offset), 1, offset) \o cells \o SubSeq(f, offset + Len(cells) + 1, Len(f))

----------------------------------------------------------------------------
(* The reader.                                                             *)

\* Where the reader looks for a header: it skips the rest of a block that
\* cannot hold one.
HeaderOffset(offset) ==
  IF SpaceInBlock(offset) < HdrLen THEN offset + SpaceInBlock(offset) ELSE offset

\* The HdrLen cells at offset are one entry header (its magic number is right).
IsHeaderAt(f, offset) ==
  \A k \in 0..HdrLen - 1 : /\ f[offset + k + 1].k = k
                           /\ f[offset + k + 1] = [f[offset + 1] EXCEPT !.k = k]

\* The value stored in the body at offset, or Garbage when cells of several
\* writes, or holes, are mixed in it.
BodyValue(f, offset, len) ==
  LET body == {f[offset + k + 1] : k \in HdrLen..len - 1}
  IN IF len = HdrLen THEN Nothing
     ELSE IF \E v \in {c.val : c \in body} :
                 \A k \in HdrLen..len - 1 : f[offset + k + 1] = Cell(Entry("body", len, 0, v), k)
          THEN f[offset + len].val
          ELSE Garbage

ReadFailed(status) == [status |-> status, type |-> "none", len |-> 0, time |-> 0,
                       val |-> Nothing, offset |-> 0, next |-> 0]

\* jr_LogEntryInitFromFilePtr from offset start of image f: the entry found
\* after skipping block ends and pad entries, where it starts and where the
\* file pointer is afterwards, or the way the read fails.
ReadEntry(f, start) ==
  LET read[p \in 0..Len(f)] ==
        LET q == HeaderOffset(p)
        IN CASE q >= Len(f)             -> ReadFailed("eof")
             [] q < Len(f) /\ q + HdrLen > Len(f) -> ReadFailed("short")
             [] OTHER ->
                  LET h == f[q + 1]
                  IN IF ~IsHeaderAt(f, q) THEN ReadFailed("magic")
                     ELSE IF h.type = "pad"
                          THEN IF q + h.time >= Len(f) THEN ReadFailed("eof") ELSE read[q + h.time]
                     ELSE IF q + h.len > Len(f) THEN ReadFailed("short")
                     ELSE [status |-> "ok", type |-> h.type, len |-> h.len,
                           time |-> h.time, val |-> BodyValue(f, q, h.len),
                           offset |-> q, next |-> q + h.len]
  IN IF start >= Len(f) THEN ReadFailed("eof") ELSE read[start]

\* Every entry that can be read one after the other from offset start on, the
\* log header entries and the failed read that ends the sequence included.
ReadAll(f, start) ==
  LET all[p \in 0..Len(f)] ==
        LET e == ReadEntry(f, p)
        IN IF e.status = "ok" THEN <<e>> \o all[e.next] ELSE <<e>>
  IN IF start >= Len(f) THEN <<ReadFailed("eof")>> ELSE all[start]
=============================================================================
