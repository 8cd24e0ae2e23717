--------------------------- MODULE CharRingbuffer ---------------------------
(***************************************************************************)
(* The dump log (dump_log.cpp, char_ringbuffer.cpp): a ring buffer keeps   *)
(* the text that was logged last and has not been read.  A write that      *)
(* reaches the end of the memory continues at its start, as often as       *)
(* needed; each round of that loop is a step here, taken with the buffer's *)
(* mutex held.  The model begins when the buffer has been allocated; before *)
(* that nothing is kept, and get_dump_log returns nothing.                 *)
(*                                                                         *)
(* A character is its place in the stream of all that was ever written,    *)
(* 1, 2, ..., and 0 where the memory has been cleared.                     *)
(***************************************************************************)
EXTENDS Integers, Sequences

CONSTANTS Sizes,      \* the sizes the buffer may be given
          Lengths,    \* the lengths of the texts that are written
          MaxWritten  \* bound: how much is written in all

ASSUME SizesAssumption == Sizes \subseteq Nat \ {0} /\ Sizes # {}
ASSUME LengthsAssumption == Lengths \subseteq Nat /\ MaxWritten \in Nat

VARIABLES
  dump_log_len, \* the length configured last; with 0 nothing is logged
  size, data,   \* the memory, data[0] to data[size - 1]
  write_start,  \* where the next text goes
  read_start,   \* where the text begins that has not been read
  buffer_full,  \* the text goes on at data[0] after the end of the memory
  mtx,          \* a write is going on
  n,            \* how much of the text it still has to copy
  \* history, not in the code:
  written,      \* the characters copied so far
  taken,        \* those that had been read, or cleared, at the last get
  last          \* the length of the last write

memory == <<size, data>>
ringvars == <<dump_log_len, memory, write_start, read_start, buffer_full, mtx, n, written, taken, last>>

Cleared(s) == [i \in 0 .. s - 1 |-> 0]

RingInit ==
  /\ size \in Sizes /\ dump_log_len = size
  /\ data = Cleared(size)
  /\ write_start = 0 /\ read_start = 0 /\ buffer_full = FALSE
  /\ mtx = FALSE /\ n = 0
  /\ written = 0 /\ taken = 0 /\ last = 0

-----------------------------------------------------------------------------
(* write() *)

(* memcpy of the next k characters to write_start. *)
Copy(k) ==
  /\ data' = [i \in 0 .. size - 1 |->
                IF i \in write_start .. write_start + k - 1
                THEN written + 1 + (i - write_start) ELSE data[i]]
  /\ written' = written + k
  /\ n' = n - k

(* vdump_log() *)
WriteBegin(len) ==
  /\ ~mtx /\ dump_log_len > 0
  /\ written + len <= MaxWritten
  /\ mtx' = TRUE /\ n' = len /\ last' = len
  /\ UNCHANGED <<dump_log_len, memory, write_start, read_start, buffer_full, written, taken>>

(* Mutant of AtEnd: off by one. *)
AtEndLate == write_start + n > size

(* The text reaches the end of the memory. *)
AtEnd == write_start + n >= size

(* Mutant of WriteRound: read_start stays behind when the text overtakes it. *)
WriteRoundKeepsReadStart ==
  /\ mtx /\ AtEnd
  /\ Copy(size - write_start)
  /\ buffer_full' = TRUE
  /\ write_start' = 0
  /\ UNCHANGED <<dump_log_len, size, mtx, read_start, taken, last>>

(* One round of the loop: copy up to the end, go on at the start. *)
WriteRound ==
  /\ mtx /\ AtEnd
  /\ Copy(size - write_start)
  /\ buffer_full' = TRUE
  /\ read_start' = IF read_start > write_start THEN 0 ELSE read_start
  /\ write_start' = 0
  /\ UNCHANGED <<dump_log_len, size, mtx, taken, last>>

(* Mutant of WriteLast: the oldest text is not given up in a full buffer. *)
WriteLastForgetsFull ==
  /\ mtx /\ ~AtEnd
  /\ mtx' = FALSE
  /\ Copy(n)
  /\ read_start' = IF n > 0 /\ read_start > write_start /\ write_start + n > read_start
                   THEN write_start + n ELSE read_start
  /\ write_start' = write_start + n
  /\ UNCHANGED <<dump_log_len, size, buffer_full, taken, last>>

(* The rest, if there is any; unread text it overwrites is given up. *)
WriteLast ==
  /\ mtx /\ ~AtEnd
  /\ mtx' = FALSE
  /\ Copy(n)
  /\ read_start' = IF n = 0 THEN read_start
                   ELSE IF buffer_full /\ write_start = read_start THEN read_start + n
                   ELSE IF read_start > write_start /\ write_start + n > read_start
                        THEN write_start + n
                   ELSE read_start
  /\ write_start' = write_start + n
  /\ UNCHANGED <<dump_log_len, size, buffer_full, taken, last>>

-----------------------------------------------------------------------------
(* get(), get_data_len() and set_size(), of the buffer and of the dump log *)

Part(from, to) == [i \in 1 .. to - from |-> data[from + i - 1]]

Text == IF buffer_full THEN Part(read_start, size) \o Part(0, write_start)
                       ELSE Part(read_start, write_start)

get_data_len == IF buffer_full THEN (size - read_start) + write_start
                               ELSE write_start - read_start

(* get(keep = false), which returns Text: svc_get_dump_log. *)
Get ==
  /\ ~mtx
  /\ read_start' = write_start
  /\ buffer_full' = FALSE
  /\ taken' = written /\ last' = 0
  /\ UNCHANGED <<dump_log_len, memory, write_start, mtx, n, written>>

set_size(s) ==
  /\ size' = s /\ data' = Cleared(s)
  /\ write_start' = 0 /\ read_start' = 0 /\ buffer_full' = FALSE
  /\ taken' = written /\ last' = 0

(* dump_log_set_len(); realloc may fail, and leaves the buffer as it is.   *)
SetLen(len) ==
  /\ ~mtx
  /\ dump_log_len' = len
  /\ \/ len # 0 /\ set_size(len)
     \/ UNCHANGED <<memory, write_start, read_start, buffer_full, taken, last>>
  /\ UNCHANGED <<mtx, n, written>>

-----------------------------------------------------------------------------
RingNext ==
  \/ \E len \in Lengths : WriteBegin(len)
  \/ WriteRound \/ WriteLast \/ Get
  \/ \E len \in Sizes \cup {0} : SetLen(len)

RingSpec == RingInit /\ [][RingNext]_ringvars

-----------------------------------------------------------------------------
(* Properties. *)

RingTypeOK ==
  /\ dump_log_len \in Sizes \cup {0}
  /\ size \in Sizes /\ data \in [0 .. size - 1 -> Nat]
  /\ write_start \in Nat /\ read_start \in Nat /\ n \in Nat
  /\ buffer_full \in BOOLEAN /\ mtx \in BOOLEAN
  /\ written \in Nat /\ taken \in 0 .. written /\ last \in Nat

(* Whatever the lengths, no memcpy writes and no get reads beyond the      *)
(* memory: the differences get computes in unsigned arithmetic, size -     *)
(* read_start and write_start - read_start, are never negative.            *)
InBounds ==
  /\ write_start < size /\ read_start < size
  /\ ~buffer_full => read_start <= write_start

(* What get returns is the newest text, without a gap, a repetition, or    *)
(* anything that was returned before, and get_data_len is its length.      *)
TextIsNewest ==
  ~mtx =>
    /\ get_data_len <= written - taken
    /\ Text = [i \in 1 .. get_data_len |-> (written - get_data_len) + i]

(* The text written last is there whole, as far as the buffer can hold it. *)
LastTextIsKept ==
  ~mtx => get_data_len >= (IF last < size THEN last ELSE size)
=============================================================================
