----------------------------- MODULE StreamFile -----------------------------
(***************************************************************************)
(* A file of the library on its two platforms, side by side: the same      *)
(* calls are made on both (include/coio/asyncio/file.h).  On POSIX the     *)
(* kernel keeps the position of an open file                               *)
(* (src/linux/asyncio/file.cpp); on Windows the file object does and every *)
(* transfer names an offset (src/win/asyncio/iocp_context.cpp, file.cpp).  *)
(*                                                                         *)
(* The file is open for reading and writing.  Transfers are as long as the *)
(* file and the buffer allow.                                              *)
(***************************************************************************)
EXTENDS Naturals, Sequences

CONSTANTS Bytes,        \* what is written
          Largest       \* the largest offset, and bound: the largest file

\* A byte that nobody wrote, and the contents of a file that is not there.
Hole == "hole"
Absent == <<"absent">>

FileAssumption == Bytes \cap {"hole", "absent"} = {} /\ Largest \in Nat

VARIABLES
    disk,       \* disk[b]: the contents, or Absent
    mode,       \* the flags the file is open with, or {"closed"}
    handles,    \* handles[b]: how many handles of the file are open
    position,   \* POSIX: the offset of the open file description
    pointer,    \* Windows: the file pointer of the handle
    offset,     \* Windows: file_object::offset_
    said,       \* said[b]: what the last call returned or threw
    excused     \* the documentation lets the platforms differ from here on

places == <<position, pointer, offset>>
vars == <<disk, mode, handles, places, said, excused>>

Platforms == {"posix", "windows"}
Flags == {"append", "create", "exclusive", "truncate"}
Modes == {m \in SUBSET Flags : "exclusive" \in m => "create" \in m}

IsOpen == mode # {"closed"}

Both(posix, windows) == [b \in Platforms |-> IF b = "posix" THEN posix ELSE windows]
Value(v) == <<"value", v>>
Error == <<"error">>
Eof == <<"eof">>

StartOf(there) ==
    /\ disk = Both(there, there)
    /\ mode = {"closed"} /\ handles = Both(0, 0)
    /\ position = 0 /\ pointer = 0 /\ offset = 0
    /\ said = Both(Value(0), Value(0)) /\ excused = FALSE

Init == \E there \in {Absent, <<>>} \cup {<<b>> : b \in Bytes} : StartOf(there)

(***************************************************************************)
(* Contents                                                                *)
(***************************************************************************)

Smaller(m, n) == IF m < n THEN m ELSE n

Resized(s, n) == [i \in 1..n |-> IF i <= Len(s) THEN s[i] ELSE Hole]

Overwritten(s, at, n, byte) ==
    [i \in 1..(IF at + n > Len(s) THEN at + n ELSE Len(s)) |->
        IF i \in (at + 1)..(at + n) THEN byte ELSE IF i <= Len(s) THEN s[i] ELSE Hole]

Found(s, at, n) == SubSeq(s, at + 1, Smaller(at + n, Len(s)))

\* What reading n bytes reports: nothing, into a buffer, is the end.
ReadResult(s, at, n) ==
    IF n > 0 /\ Found(s, at, n) = <<>> THEN Eof ELSE Value(Found(s, at, n))

(***************************************************************************)
(* open() and close()                                                      *)
(***************************************************************************)

\* ::open() with the flags of to_native_openmode().
PosixOpens(s, m) == IF s = Absent THEN "create" \in m ELSE "exclusive" \notin m
PosixContents(s, m) == IF s = Absent \/ "truncate" \in m THEN <<>> ELSE s

\* to_creation_disposition(), and what CreateFile() makes of it.
Disposition(m) ==
    CASE {"create", "exclusive"} \subseteq m -> "CREATE_NEW"
      [] "create" \in m /\ "exclusive" \notin m -> "OPEN_ALWAYS"
      [] "create" \notin m /\ "truncate" \in m -> "TRUNCATE_EXISTING"
      [] OTHER -> "OPEN_EXISTING"

WindowsOpens(s, m) ==
    CASE Disposition(m) = "CREATE_NEW" -> s = Absent
      [] Disposition(m) = "OPEN_ALWAYS" -> TRUE
      [] OTHER -> s # Absent

\* SetEndOfFile() at the beginning when an existing file is to be truncated.
WindowsContents(s, m) ==
    IF s = Absent \/ Disposition(m) = "TRUNCATE_EXISTING"
       \/ (Disposition(m) = "OPEN_ALWAYS" /\ "truncate" \in m)
    THEN <<>> ELSE s

WindowsPointer(s, m) ==
    IF Disposition(m) \in {"OPEN_ALWAYS", "OPEN_EXISTING"} /\ "append" \in m
    THEN Len(WindowsContents(s, m)) ELSE 0

\* open_file() and make_io_object(), which closes the handle again when it
\* cannot be associated with the context.
Open(m) ==
    /\ ~IsOpen
    /\ LET opens == Both(PosixOpens(disk["posix"], m), WindowsOpens(disk["windows"], m))
       IN  \E associated \in BOOLEAN :
        /\ disk' = [b \in Platforms |->
              IF ~opens[b] THEN disk[b]
              ELSE IF b = "posix" THEN PosixContents(disk[b], m)
              ELSE WindowsContents(disk[b], m)]
        /\ said' = [b \in Platforms |-> IF opens[b] /\ associated THEN Value(0) ELSE Error]
        /\ handles' = [b \in Platforms |->
              handles[b] + (IF opens[b] /\ associated THEN 1 ELSE 0)]
        /\ mode' = IF associated /\ opens["posix"] /\ opens["windows"] THEN m ELSE mode
        /\ position' = 0
        /\ pointer' = IF IsOpen' THEN WindowsPointer(disk["windows"], m) ELSE 0
        /\ offset' = pointer'
    /\ UNCHANGED excused

OpenAgain ==
    /\ IsOpen
    /\ said' = Both(Error, Error)
    /\ UNCHANGED <<disk, mode, handles, places, excused>>

Close ==
    /\ IsOpen
    /\ mode' = {"closed"} /\ handles' = [b \in Platforms |-> handles[b] - 1]
    /\ position' = 0 /\ pointer' = 0 /\ offset' = 0
    /\ said' = Both(Value(0), Value(0))
    /\ UNCHANGED <<disk, excused>>

\* A transfer, seek(), resize() or size() of a file that is not open.
CallClosed ==
    /\ ~IsOpen
    /\ said' = Both(Error, Error)
    /\ UNCHANGED <<disk, mode, handles, places, excused>>

(***************************************************************************)
(* The position                                                            *)
(***************************************************************************)

Whence == {"seek_set", "seek_cur", "seek_end"}

\* Where the system goes: from the beginning, its own position, or the end.
Target(n, whence, current, s) ==
    CASE whence = "seek_set" -> n
      [] whence = "seek_cur" -> current + n
      [] whence = "seek_end" -> Len(s) + n

PosixSeek(n, whence) ==
    LET target == Target(n, whence, position, disk["posix"])
    IN  [moves |-> n <= Largest /\ target <= Largest, to |-> target]

\* seek_cur is asked for as seek_set, from offset_.
WindowsSeek(n, whence) ==
    LET from == IF whence = "seek_cur" THEN "seek_set" ELSE whence
        way == IF whence = "seek_cur" THEN offset + n ELSE n
        target == Target(way, from, pointer, disk["windows"])
    IN  [moves |-> n <= Largest /\ way <= Largest /\ target <= Largest, to |-> target]

Seek(n, whence) ==
    /\ IsOpen
    /\ LET posix == PosixSeek(n, whence)
           windows == WindowsSeek(n, whence)
           Result(seek) == IF seek.moves THEN Value(seek.to) ELSE Error
       IN  /\ position' = IF posix.moves THEN posix.to ELSE position
           /\ pointer' = IF windows.moves THEN windows.to ELSE pointer
           /\ offset' = IF windows.moves THEN windows.to ELSE offset
           /\ said' = Both(Result(posix), Result(windows))
    /\ excused' = ("append" \in mode)
    /\ UNCHANGED <<disk, mode, handles>>

\* On Windows the pointer goes to the new end and back to offset_.
Resize(n) ==
    /\ IsOpen
    /\ disk' = [b \in Platforms |-> Resized(disk[b], n)]
    /\ pointer' = offset
    /\ said' = Both(Value(0), Value(0))
    /\ excused' = ("append" \in mode)
    /\ UNCHANGED <<mode, handles, position, offset>>

Size ==
    /\ IsOpen
    /\ said' = [b \in Platforms |-> Value(Len(disk[b]))]
    /\ UNCHANGED <<disk, mode, handles, places, excused>>

(***************************************************************************)
(* Transfers                                                               *)
(***************************************************************************)

\* Faulty variant of Read: moves on by the size of the buffer.
FaultyRead(n) ==
    /\ IsOpen
    /\ said' = Both(ReadResult(disk["posix"], position, n), ReadResult(disk["windows"], offset, n))
    /\ position' = position + Len(Found(disk["posix"], position, n))
    /\ offset' = Smaller(offset + n, Largest)
    /\ excused' = ("append" \in mode)
    /\ UNCHANGED <<disk, mode, handles, pointer>>

\* read_some(): on Windows file_read_at(offset_), which moves on unless it throws.
Read(n) ==
    /\ IsOpen
    /\ said' = Both(ReadResult(disk["posix"], position, n), ReadResult(disk["windows"], offset, n))
    /\ position' = position + Len(Found(disk["posix"], position, n))
    /\ offset' = offset + Len(Found(disk["windows"], offset, n))
    /\ excused' = ("append" \in mode)
    /\ UNCHANGED <<disk, mode, handles, pointer>>

\* O_APPEND takes every write to the end.
PosixWritesAt == IF "append" \in mode THEN Len(disk["posix"]) ELSE position

Written(n, byte) ==
    [b \in Platforms |->
        IF n = 0 THEN disk[b]
        ELSE Overwritten(disk[b], IF b = "posix" THEN PosixWritesAt ELSE offset, n, byte)]

Write(n, byte) ==
    /\ IsOpen /\ PosixWritesAt + n <= Largest /\ offset + n <= Largest
    /\ disk' = Written(n, byte)
    /\ position' = IF n = 0 THEN position ELSE PosixWritesAt + n
    /\ offset' = offset + n
    /\ said' = Both(Value(n), Value(n))
    /\ UNCHANGED <<mode, handles, pointer, excused>>

\* async_read_some(): on Windows the range is reserved with the sender, whatever
\* comes of it; a read that is cut short or stopped leaves its position there.
AsyncRead(n) ==
    /\ IsOpen /\ offset + n <= Largest
    /\ \E stopped \in BOOLEAN :
        LET found == Found(disk["posix"], position, n)
        IN  /\ said' = IF stopped THEN Both(<<"stopped">>, <<"stopped">>)
                       ELSE Both(ReadResult(disk["posix"], position, n),
                                 ReadResult(disk["windows"], offset, n))
            /\ position' = IF stopped THEN position ELSE position + Len(found)
            /\ excused' = ("append" \in mode \/ (n > 0 /\ (stopped \/ Len(found) < n)))
    /\ offset' = offset + n
    /\ UNCHANGED <<disk, mode, handles, pointer>>

AsyncWrite(n, byte) ==
    /\ IsOpen /\ PosixWritesAt + n <= Largest /\ offset + n <= Largest
    /\ \E stopped \in BOOLEAN :
        /\ disk' = IF stopped THEN disk ELSE Written(n, byte)
        /\ position' = IF stopped \/ n = 0 THEN position ELSE PosixWritesAt + n
        /\ said' = IF stopped THEN Both(<<"stopped">>, <<"stopped">>) ELSE Both(Value(n), Value(n))
        /\ excused' = (stopped /\ n > 0)
    /\ offset' = offset + n
    /\ UNCHANGED <<mode, handles, pointer>>

\* read_some_at() and write_some_at(), also asynchronous: no position is involved.
ReadAt(at, n) ==
    /\ IsOpen
    /\ said' = [b \in Platforms |-> ReadResult(disk[b], at, n)]
    /\ UNCHANGED <<disk, mode, handles, places, excused>>

WriteAt(at, n, byte) ==
    /\ IsOpen /\ "append" \notin mode /\ at + n <= Largest
    /\ disk' = IF n = 0 THEN disk ELSE [b \in Platforms |-> Overwritten(disk[b], at, n, byte)]
    /\ said' = Both(Value(n), Value(n))
    /\ UNCHANGED <<mode, handles, places, excused>>

(***************************************************************************)
(* The specification                                                       *)
(***************************************************************************)

\* Two bytes at a time are the least for a transfer that is cut short; offsets
\* go one beyond the largest.
Next ==
    /\ ~excused
    /\ \/ \E m \in Modes : Open(m)
       \/ OpenAgain \/ Close \/ CallClosed \/ Size
       \/ \E n \in 0..(Largest + 1), whence \in Whence : Seek(n, whence)
       \/ \E n \in 0..Largest : Resize(n)
       \/ \E n \in 0..2 : Read(n) \/ AsyncRead(n)
       \/ \E n \in 0..2, byte \in Bytes : Write(n, byte) \/ AsyncWrite(n, byte)
       \/ \E n \in 0..2, at \in 0..Largest : ReadAt(at, n)
       \/ \E n \in 0..2, at \in 0..Largest, byte \in Bytes : WriteAt(at, n, byte)

Spec == Init /\ [][Next]_vars

-----------------------------------------------------------------------------
(***************************************************************************)
(* Properties                                                              *)
(***************************************************************************)

\* The platforms are told apart by no sequence of calls the documentation
\* defines: every call returns the same, the file holds the same, a position
\* is the same unless the file is open for appending, and each has one handle
\* exactly while the file is open.  The documentation lets them differ after
\* an asynchronous transfer that did not fill its buffer, and says nothing of
\* the position of a file that is open for appending.
PlatformsAgree ==
    /\ \A b \in Platforms : handles[b] = IF IsOpen THEN 1 ELSE 0
    /\ disk["posix"] = disk["windows"]
    /\ ~excused \/ "append" \notin mode => said["posix"] = said["windows"]
    /\ ~excused /\ "append" \notin mode => position = offset
=============================================================================
