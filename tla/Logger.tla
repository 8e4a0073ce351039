------------------------------- MODULE Logger -------------------------------
(***************************************************************************)
(* The asynchronous logger (base/logger.cpp, base/logger.hpp) once         *)
(* setfilename() has started it: threads append entries to the producer's  *)
(* buffer of a ring of fixed buffers, the dump thread writes the           *)
(* consumer's buffer to the file.  _mutex covers all of log() and the two  *)
(* ends of a round of dump(); the file is written with no lock held.       *)
(***************************************************************************)
EXTENDS Naturals, Sequences, SequencesExt

CONSTANTS
  N,          \* _node_cnt
  Size,       \* the SIZE of a node's fixedbuffer
  Lens,       \* lengths of entries
  MaxEntries  \* model bound: entries handed to log() in one behaviour

ASSUME NAssumption == N \in Nat \ {0}
ASSUME SizeAssumption == Size \in Nat /\ Lens \subseteq 1..(Size - 1)
ASSUME MaxEntriesAssumption == MaxEntries \in Nat

VARIABLES
  node,       \* _buffer_node: status, bytes used, the entries in it
  producer, consumer,
  run,        \* _run
  pc,         \* the dump thread
  file,       \* logfile::_file is not NULL
  disk,       \* entries written, in order
  ioerr,      \* history: the file could not be opened or written
  accepted,   \* history: entries log() appended
  dropped     \* history: how many it discarded

vars == <<node, producer, consumer, run, pc, file, disk, ioerr, accepted, dropped>>

Nodes == 0..(N - 1)
EmptyNode == [status |-> "free", used |-> 0, items |-> <<>>]

Init ==
  /\ node = [i \in Nodes |-> EmptyNode]
  /\ producer = 0 /\ consumer = 0
  /\ run = TRUE
  /\ pc = "loop"
  /\ file \in BOOLEAN /\ ioerr = ~file
  /\ disk = <<>> /\ accepted = <<>> /\ dropped = 0

next(i) == (i + 1) % N

-----------------------------------------------------------------------------
(* log()                                                                   *)

Entry == Len(accepted) + dropped + 1

\* fixedbuffer::append: an entry that does not fit is cut off, and lost here.
Put(n, e, len) ==
  IF len <= Size - n.used
  THEN [n EXCEPT !.used = @ + len, !.items = Append(@, e)]
  ELSE [n EXCEPT !.used = Size]

Fits(n, len) == Size - n.used > len

Full(n) == n.status = "full"

\* log() of an entry of length len.
Log(len) ==
  /\ Entry <= MaxEntries
  /\ \/ /\ Full(node[producer])
        /\ dropped' = dropped + 1
        /\ UNCHANGED <<node, producer, accepted>>
     \/ /\ ~Full(node[producer]) /\ Fits(node[producer], len)
        /\ node' = [node EXCEPT ![producer] = Put(@, Entry, len)]
        /\ accepted' = Append(accepted, Entry)
        /\ UNCHANGED <<producer, dropped>>
     \/ /\ ~Full(node[producer]) /\ ~Fits(node[producer], len)
        /\ producer' = next(producer)
        /\ LET marked == [node EXCEPT ![producer].status = "full"] IN
           \/ /\ Full(marked[producer'])
              /\ node' = marked
              /\ dropped' = dropped + 1
              /\ UNCHANGED accepted
           \/ /\ ~Full(marked[producer'])
              /\ node' = [marked EXCEPT ![producer'] = Put(@, Entry, len)]
              /\ accepted' = Append(accepted, Entry)
              /\ UNCHANGED dropped
  /\ UNCHANGED <<consumer, run, pc, file, disk, ioerr>>

\* stop(), up to the join: the dump thread ends at the next test of _run.
Stop ==
  /\ run
  /\ run' = FALSE
  /\ UNCHANGED <<node, producer, consumer, pc, file, disk, ioerr, accepted, dropped>>

-----------------------------------------------------------------------------
(* The dump thread                                                         *)

\* The head of the loop; a free buffer makes it wait on the condition.
DumpLoop ==
  /\ pc = "loop"
  /\ pc' = IF ~run THEN "exit" ELSE IF Full(node[consumer]) THEN "write" ELSE "wait"
  /\ UNCHANGED <<node, producer, consumer, run, file, disk, ioerr, accepted, dropped>>

\* The wait ends, notified or after _flushtime; entries in a buffer that is
\* not full yet are written too.
TakeUnmarked(n) == n  \* mutant: the buffer is written without marking it
Take(n) == [n EXCEPT !.status = "full"]
DumpWake ==
  /\ pc = "wait"
  /\ \/ /\ Full(node[consumer])
        /\ pc' = "write"
        /\ UNCHANGED node
     \/ /\ ~Full(node[consumer]) /\ node[consumer].used > 0
        /\ node' = [node EXCEPT ![consumer] = Take(@)]
        /\ pc' = "write"
     \/ /\ ~Full(node[consumer]) /\ node[consumer].used = 0
        /\ pc' = "loop"
        /\ UNCHANGED node
  /\ UNCHANGED <<producer, consumer, run, file, disk, ioerr, accepted, dropped>>

\* logfile::write, which may first roll to a new file, and the output hook.
\* A file that could not be opened is not tried again.
DumpWrite ==
  /\ pc = "write"
  /\ pc' = "release"
  /\ file' \in {file, FALSE}
  /\ \/ file' /\ disk' = disk \o node[consumer].items /\ UNCHANGED ioerr
     \/ UNCHANGED disk /\ ioerr' = TRUE
  /\ UNCHANGED <<node, producer, consumer, run, accepted, dropped>>

\* Where the producer goes on when its buffer was the one written.
Follow(p, c) == p  \* mutant: the producer stays
SkipUnwrapped(p, c) == IF c = p THEN p + 1 ELSE p  \* mutant: runs off the ring
Skip(p, c) == IF c = p THEN next(p) ELSE p
DumpReleaseUncleared ==  \* mutant: the buffer is not cleared
  /\ pc = "release"
  /\ producer' = Skip(producer, consumer)
  /\ node' = [node EXCEPT ![consumer].status = "free"]
  /\ consumer' = next(consumer)
  /\ pc' = "loop"
  /\ UNCHANGED <<run, file, disk, ioerr, accepted, dropped>>
DumpReleaseStuck ==  \* mutant: the status is not reset
  /\ pc = "release"
  /\ producer' = Skip(producer, consumer)
  /\ node' = [node EXCEPT ![consumer].used = 0, ![consumer].items = <<>>]
  /\ consumer' = next(consumer)
  /\ pc' = "loop"
  /\ UNCHANGED <<run, file, disk, ioerr, accepted, dropped>>
DumpRelease ==
  /\ pc = "release"
  /\ producer' = Skip(producer, consumer)
  /\ node' = [node EXCEPT ![consumer] = EmptyNode]
  /\ consumer' = next(consumer)
  /\ pc' = "loop"
  /\ UNCHANGED <<run, file, disk, ioerr, accepted, dropped>>

Dump == DumpLoop \/ DumpWake \/ DumpWrite \/ DumpRelease

Next == Dump \/ Stop \/ \E len \in Lens : Log(len)

Spec == Init /\ [][Next]_vars

\* The dump thread is scheduled; its waits are timed.
FairSpec == Spec /\ WF_vars(Dump)

-----------------------------------------------------------------------------
(* Properties                                                              *)

TypeOK ==
  /\ node \in [Nodes -> [status : {"free", "full"}, used : 0..Size, items : Seq(Nat)]]
  /\ producer \in Nodes /\ consumer \in Nodes
  /\ run \in BOOLEAN
  /\ pc \in {"loop", "wait", "write", "release", "exit"}
  /\ file \in BOOLEAN /\ ioerr \in BOOLEAN
  /\ disk \in Seq(Nat) /\ accepted \in Seq(Nat) /\ dropped \in Nat

\* What the ring holds, from the consumer round; a buffer that was written
\* and is about to be cleared counts as written.
Held ==
  LET from == IF pc = "release" THEN 1 ELSE 0
  IN  FlattenSeq([k \in 1..(N - from) |-> node[(consumer + from + k - 1) % N].items])

\* The entries log() accepted are on the disk or in the ring, in order, none
\* twice and none cut, however the ring wraps and whichever of the two
\* pointers catches up with the other.
LogIntact == ~ioerr => accepted = disk \o Held

\* No thread touches the buffer the dump thread reads with no lock held.
NoRace ==
  [][{pc, pc'} \subseteq {"write", "release"} => UNCHANGED node[consumer]]_vars

\* What was accepted reaches the file, while the logger runs and the file
\* can be written.
Flushed ==
  \A e \in 1..MaxEntries :
    Contains(accepted, e) ~> (Contains(disk, e) \/ ioerr \/ ~run)

\* A producer that found its buffer full gets a free one.
Resumes == Full(node[producer]) ~> (~Full(node[producer]) \/ ~run)
=============================================================================
