----------------------------- MODULE FileJoiner -----------------------------
(***************************************************************************)
(* MTS_FileJoiner: a click on the button joins the video segments that the *)
(* user selected, in the order of their names, into the output file.  The  *)
(* window, its dialogs and stdio are external: they bring the selection, a *)
(* disk that fills up and a medium that cannot be read.                    *)
(***************************************************************************)
EXTENDS Naturals, Sequences, SequencesExt, FiniteSets

CONSTANTS
  Names,          \* the paths, as numbers in the order of strcmp
  Sizes,          \* bound: sizes of a file, in blocks
  SIZE_OF_BUFFER, \* the most that fread is asked for
  Space,          \* blocks that the disk has for the output
  MaxClicks,      \* bound
  None            \* no path

ASSUME JoinerAssumption ==
  /\ Names \subseteq Nat /\ IsFiniteSet(Names)
  /\ Sizes \subseteq Nat
  /\ SIZE_OF_BUFFER \in Nat \ {0}
  /\ Space \in Nat
  /\ MaxClicks \in Nat
  /\ None \notin Names

VARIABLES
  disk,         \* path -> its blocks
  missing,      \* the paths that cannot be opened
  unreadable,   \* a path whose blocks cannot be read, or None
  Files,        \* OpenDialog1->Files: the selection, what is left of it
  outputfilename,
  filename,     \* the segment at hand
  position,     \* blocks of it that have been read
  eof,          \* feof(stream)
  totalBytesWritten,
  pc,
  clicks,
  sources,      \* history: the selected files as they were
  taken         \* history: the names taken from Files, in order

stream == <<filename, position, eof>>
outside == <<unreadable, outputfilename, clicks, sources>>
vars == <<disk, missing, Files, stream, totalBytesWritten, pc, outside, taken>>

Block(n, k) == <<n, k>>

Init ==
  /\ \E size \in [Names -> Sizes] :
       disk = [n \in Names |-> [k \in 1..size[n] |-> Block(n, k)]]
  /\ missing \in {S \in SUBSET Names : Cardinality(S) <= 1}
  /\ unreadable \in Names \cup {None}
  /\ Files = <<>>
  /\ outputfilename = None
  /\ filename = None
  /\ position = 0
  /\ eof = FALSE
  /\ totalBytesWritten = 0
  /\ pc = "ready"
  /\ clicks = 0
  /\ sources = disk
  /\ taken = <<>>
----------------------------------------------------------------------------
(* BitBtn1Click: both dialogs, and the output opened for writing, which    *)
(* empties it, be it one of the selected files or not.                     *)
BitBtn1Click(selection, output) ==
  /\ pc = "ready"
  /\ clicks < MaxClicks
  /\ clicks' = clicks + 1
  /\ Files' = selection
  /\ outputfilename' = output
  /\ sources' = disk
  /\ disk' = [disk EXCEPT ![output] = <<>>]
  /\ totalBytesWritten' = 0
  /\ taken' = <<>>
  /\ pc' = "next"
  /\ missing' = missing \ {output}
  /\ UNCHANGED <<unreadable, stream>>

(* The place of the least name, found in one pass.  Mutant: the pass       *)
(* compares each name with its neighbour's, not with the least so far.     *)
LeastIndexMutant(names) ==
  LET least[k \in 1..Len(names)] ==
        IF k = 1 THEN 1
        ELSE IF names[k - 1] > names[k] THEN k ELSE least[k - 1]
  IN  least[Len(names)]

LeastIndex(names) ==
  LET least[k \in 1..Len(names)] ==
        IF k = 1 THEN 1
        ELSE IF names[least[k - 1]] > names[k] THEN k ELSE least[k - 1]
  IN  least[Len(names)]

GetNextFileName ==
  /\ pc = "next"
  /\ Files # <<>>
  /\ LET index == LeastIndex(Files)
     IN  /\ filename' = Files[index]
         /\ taken' = Append(taken, Files[index])
         /\ Files' = RemoveAt(Files, index)
  /\ pc' = "open"
  /\ UNCHANGED <<disk, missing, position, eof, totalBytesWritten, outside>>

OpenOrElse(stage) ==
  /\ pc = "open"
  /\ position' = 0
  /\ eof' = FALSE
  /\ pc' = IF filename \in missing THEN stage ELSE "read"
  /\ UNCHANGED <<disk, missing, Files, filename, totalBytesWritten, outside, taken>>

(* A file that cannot be opened is passed over.  Mutant: it is tried again.*)
OpenSegmentMutant == OpenOrElse("open")
OpenSegment == OpenOrElse("next")

(* One fread and the fwrite of what it read.  End-of-file is known only    *)
(* when less was there than was asked for.  fwrite's result is not looked  *)
(* at.  A read that fails leaves everything as it is, feof too, and the    *)
(* loop goes round: a stuttering step.                                     *)
Lesser(a, b) == IF a < b THEN a ELSE b
BytesRead == Lesser(SIZE_OF_BUFFER, Len(disk[filename]) - position)
Room == Space - Len(disk[outputfilename])

(* Mutant: what was asked for is counted.                                  *)
CountMutant(read) == totalBytesWritten' = totalBytesWritten + SIZE_OF_BUFFER
Count(read) == totalBytesWritten' = totalBytesWritten + read

CopyBlocks(ended) ==
  /\ pc = "read"
  /\ ~eof
  /\ filename # unreadable
  /\ disk' = [disk EXCEPT ![outputfilename] =
       @ \o SubSeq(disk[filename], position + 1, position + Lesser(BytesRead, Room))]
  /\ position' = position + BytesRead
  /\ eof' = ended
  /\ Count(BytesRead)
  /\ UNCHANGED <<missing, Files, filename, pc, outside, taken>>

(* Mutant: a full buffer is taken for the end of the file.                 *)
CopySegmentMutant == CopyBlocks(BytesRead <= SIZE_OF_BUFFER)
CopySegment == CopyBlocks(BytesRead < SIZE_OF_BUFFER)

CloseSegment ==
  /\ pc = "read"
  /\ eof
  /\ pc' = "next"
  /\ UNCHANGED <<disk, missing, Files, stream, totalBytesWritten, outside, taken>>

(* The output is closed and the buttons are enabled again.                 *)
Finish ==
  /\ pc = "next"
  /\ Files = <<>>
  /\ pc' = "ready"
  /\ UNCHANGED <<disk, missing, Files, stream, totalBytesWritten, outside, taken>>
----------------------------------------------------------------------------
(* A selection: one or more files, none of them twice, in any order.       *)
Selections == UNION {SetToSeqs(S) : S \in (SUBSET Names) \ {{}}}

JoinStep ==
  \/ GetNextFileName
  \/ OpenSegment
  \/ CopySegment
  \/ CloseSegment
  \/ Finish

Next ==
  \/ \E selection \in Selections, output \in Names : BitBtn1Click(selection, output)
  \/ JoinStep

(* The click handler runs on once it is called.                            *)
Spec == Init /\ [][Next]_vars /\ WF_vars(JoinStep)
----------------------------------------------------------------------------
(* Properties *)

(* What has been taken is sorted, and before all that is left.             *)
TakenInOrder ==
  \A i \in 1..Len(taken) :
    /\ \A j \in (i + 1)..Len(taken) : taken[i] < taken[j]
    /\ \A k \in 1..Len(Files) : taken[i] < Files[k]

(* The output holds the segments in the order of their names, whole but    *)
(* for the one at hand, none twice and none but those that cannot be       *)
(* opened left out, unless the disk is full or the output was selected.    *)
Portion(i) ==
  IF taken[i] \in missing \/ (i = Len(taken) /\ pc = "open") THEN <<>>
  ELSE IF i = Len(taken) /\ pc = "read" THEN SubSeq(sources[taken[i]], 1, position)
  ELSE sources[taken[i]]
OutputSelected == outputfilename \in ToSet(Files) \cup ToSet(taken)
DiskFull == outputfilename # None /\ Room = 0
OutputIsJoin ==
  /\ TakenInOrder
  /\ clicks > 0 /\ ~OutputSelected /\ ~DiskFull =>
       disk[outputfilename] = FlattenSeq([i \in 1..Len(taken) |-> Portion(i)])

(* What the log reports as written is in the file, unless the disk is      *)
(* full: then fwrite's result, which is not looked at, tells.              *)
ReportedIsWritten ==
  clicks > 0 /\ ~DiskFull => totalBytesWritten = Len(disk[outputfilename])

(* A click ends, also when the output is one of its own inputs and grows   *)
(* as it is read (the disk fills up), unless a segment cannot be read.     *)
ClickEnds == pc # "ready" ~> pc = "ready" \/ filename = unreadable
=============================================================================
