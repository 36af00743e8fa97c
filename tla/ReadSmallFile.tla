---------------------------- MODULE ReadSmallFile ----------------------------
(***************************************************************************)
(* ReadSmallFile of base/file_util.cpp, and readFile on top of it: a file  *)
(* that somebody else may append to, truncate and write anew is read piece *)
(* by piece into a string, or at once into buf_.                           *)
(*                                                                         *)
(* A byte is known by its place and by the version of the file that it     *)
(* belongs to; a step is one system call.                                  *)
(***************************************************************************)
EXTENDS Integers, Sequences

CONSTANTS
  kBufferSize,  \* sizeof(buf_)
  MaxSizes,     \* the values of maxSize
  Kinds,        \* what the name may stand for: "file", "directory", "missing"
  FileSizes,    \* how long the file may be at first
  MaxFile,      \* bound: the length of the file
  MaxVersion    \* bound: how often it is written anew

ASSUME ReadAssumption ==
  /\ kBufferSize \in Nat \ {0} /\ MaxSizes \subseteq Nat
  /\ FileSizes \subseteq Nat /\ MaxFile \in Nat /\ MaxVersion \in Nat

VARIABLES
  kind,         \* what is at the name
  file,         \* the bytes of the file
  version,      \* how often it has been written anew
  readPc,       \* "open", "fstat", "read", "returned" or "closed"
  fd_, err_,    \* of the object; errors are named, "0" is none
  maxSize, wantsSize,   \* the arguments; wantsSize: fileSize is not null
  err,          \* the local variable, and what is returned
  content,      \* *content
  fileSize,     \* *fileSize, -1 if it has not been set
  offset,       \* of fd_
  buf_          \* buf_ up to its terminating null, and what readToBuffer
                \*   says is its size; -1 if it has not been called

objectOf == <<fd_, err_, maxSize, wantsSize>>
results == <<err, content, fileSize, offset>>
readVars == <<kind, file, version, readPc, objectOf, results, buf_>>

\* A version of the file with n bytes.
Version(v, n) == [i \in 1 .. n |-> [version |-> v, at |-> i]]

NoBuffer == [bytes |-> <<>>, size |-> -1, null |-> 0]

ReadInit ==
  /\ kind \in Kinds
  /\ version = 0
  /\ \E n \in FileSizes : file = Version(0, n)
  /\ maxSize \in MaxSizes /\ wantsSize \in BOOLEAN
  /\ readPc = "open" /\ fd_ = -1 /\ err_ = "0" /\ err = "0"
  /\ content = <<>> /\ fileSize = -1 /\ offset = 0
  /\ buf_ = NoBuffer

AtMost(a, b) == IF a < b THEN a ELSE b
From(n, k) == SubSeq(file, n + 1, AtMost(n + k, Len(file)))

-----------------------------------------------------------------------------
(* Somebody else. *)

GrowFile ==
  /\ kind = "file" /\ Len(file) < MaxFile
  /\ file' = Append(file, [version |-> version, at |-> Len(file) + 1])
  /\ UNCHANGED <<kind, version, readPc, objectOf, results, buf_>>

\* Truncated, or overwritten in place with more or less than was there.
RewriteFile ==
  /\ kind = "file" /\ version < MaxVersion
  /\ version' = version + 1
  /\ \E n \in FileSizes : file' = Version(version + 1, n)
  /\ UNCHANGED <<kind, readPc, objectOf, results, buf_>>

-----------------------------------------------------------------------------
(* The reader. *)

\* The constructor, and the beginning of readToString.
Open ==
  /\ readPc = "open"
  /\ \/ /\ kind # "missing" /\ fd_' = 3 /\ UNCHANGED <<err_, err>>
        /\ readPc' = IF wantsSize THEN "fstat" ELSE "read"
     \/ /\ kind = "missing" /\ err_' = "ENOENT" /\ err' = "ENOENT"
        /\ readPc' = "returned" /\ UNCHANGED fd_
     \/ /\ err_' = "EMFILE" /\ err' = "EMFILE"
        /\ readPc' = "returned" /\ UNCHANGED fd_
  /\ UNCHANGED <<kind, file, version, maxSize, wantsSize, content, fileSize, offset, buf_>>

\* fstat: the size (with room reserved), EISDIR, or an error of its own; the
\* reading goes on all the same.
Fstat ==
  /\ readPc = "fstat"
  /\ readPc' = "read"
  /\ \/ kind = "file" /\ fileSize' = Len(file) /\ UNCHANGED err
     \/ kind = "directory" /\ err' = "EISDIR" /\ UNCHANGED fileSize
     \/ err' = "EIO" /\ UNCHANGED fileSize
  /\ UNCHANGED <<kind, file, version, objectOf, content, offset, buf_>>

\* Mutant: a read that returns less than it was asked for is taken for the end.
MutReadPiece ==
  LET toRead == AtMost(maxSize - Len(content), kBufferSize)
  IN /\ readPc = "read" /\ kind = "file" /\ Len(content) < maxSize
     /\ \E n \in 1 .. Len(From(offset, toRead)) :
          /\ content' = content \o From(offset, n)
          /\ offset' = offset + n
          /\ readPc' = IF n < toRead THEN "returned" ELSE "read"
     /\ UNCHANGED <<kind, file, version, objectOf, err, fileSize, buf_>>

\* read() returns as many bytes as were asked for, or fewer.
ReadPiece ==
  LET toRead == AtMost(maxSize - Len(content), kBufferSize)
  IN /\ readPc = "read" /\ kind = "file" /\ Len(content) < maxSize
     /\ \E n \in 1 .. Len(From(offset, toRead)) :
          /\ content' = content \o From(offset, n)
          /\ offset' = offset + n
     /\ UNCHANGED <<kind, file, version, readPc, objectOf, err, fileSize, buf_>>

\* maxSize is reached, or read() returns 0.
ReadToEnd ==
  /\ readPc = "read"
  /\ Len(content) >= maxSize \/ (kind = "file" /\ offset >= Len(file))
  /\ readPc' = "returned"
  /\ UNCHANGED <<kind, file, version, objectOf, results, buf_>>

\* read() fails; on a directory it always does.
ReadFails ==
  /\ readPc = "read" /\ Len(content) < maxSize
  /\ err' = IF kind = "directory" THEN "EISDIR" ELSE "EIO"
  /\ readPc' = "returned"
  /\ UNCHANGED <<kind, file, version, objectOf, content, fileSize, offset, buf_>>

\* readToBuffer on the same object: pread leaves the offset alone.  It may fail,
\* and has nothing to read if the constructor failed.
readToBuffer ==
  /\ readPc = "returned"
  /\ \/ /\ fd_ >= 0 /\ kind = "file" /\ err' = err_
        /\ LET bytes == From(0, kBufferSize - 1)
           IN buf_' = [bytes |-> bytes, size |-> Len(bytes), null |-> Len(bytes)]
     \/ /\ fd_ >= 0 /\ err' = IF kind = "directory" THEN "EISDIR" ELSE "EIO"
        /\ UNCHANGED buf_
     \/ fd_ < 0 /\ err' = err_ /\ UNCHANGED buf_
  /\ UNCHANGED <<kind, file, version, readPc, objectOf, content, fileSize, offset>>

\* The destructor.
CloseFile ==
  /\ readPc = "returned"
  /\ readPc' = "closed"
  /\ fd_' = -1
  /\ UNCHANGED <<kind, file, version, err_, maxSize, wantsSize, results, buf_>>

-----------------------------------------------------------------------------
ReadNext ==
  \/ GrowFile \/ RewriteFile
  \/ Open \/ Fstat \/ ReadPiece \/ ReadToEnd \/ ReadFails \/ readToBuffer \/ CloseFile

ReadSpec == ReadInit /\ [][ReadNext]_readVars

-----------------------------------------------------------------------------
(* Properties. *)

\* When readToString returns 0, byte i of the string was byte i of the file:
\* no byte is missing, repeated or out of place, however read() cut the file,
\* and as much is there as was asked for and the file has.  If the file was
\* written anew between two pieces the string is a mixture, returned with 0
\* all the same, in which nothing old follows anything newer; if it was not,
\* since the first byte was read, the string is the beginning of the file.
ContentIsWhole ==
  readPc = "read" /\ readPc' = "returned" /\ err' = "0" =>
    /\ \A i \in 1 .. Len(content') : content'[i].at = i
    /\ \A i, j \in 1 .. Len(content') : i <= j => content'[i].version <= content'[j].version
    /\ Len(content') >= AtMost(maxSize, Len(file)) /\ Len(content') <= maxSize
    /\ content' # <<>> /\ content'[1].version = version => content' = From(0, maxSize)

\* readToBuffer has room for the terminating null, however long the file has
\* become.
BufferTerminated == buf_.null < kBufferSize

\* What is read is in its place and all that was asked for and there, and
\* fits its buffer.
ReadIsWhole == [][ContentIsWhole /\ BufferTerminated']_readVars
=============================================================================
