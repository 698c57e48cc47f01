------------------------------ MODULE Printme ------------------------------
(***************************************************************************)
(* printme.c: printme() reports which hardware threads (PUs) of which     *)
(* cores the calling thread is bound to.  It reads the binding from hwloc, *)
(* builds one int bitmap of bound sibling ranks per (socket, core), lists *)
(* the non-empty bitmaps in str1 through bitmap2rangestr, frees them,     *)
(* builds str2 ("[BB./..]" per socket, "/" between cores, B for a bound   *)
(* PU) and writes str2.                                                    *)
(*                                                                         *)
(* The topology hwloc reports is uniform: NSockets sockets of             *)
(* CoresPerSocket cores of PusPerCore PUs, PU <<s, k, r>> being sibling   *)
(* r of core k of socket s, in hwloc's logical order.  An int is Width    *)
(* bits; a bitmap is its bit pattern, read as a signed value where the    *)
(* code compares it.  Text is kept as the sequence of the pieces strncat  *)
(* appends ("0-2", ",", "B"), not as characters.                           *)
(***************************************************************************)
EXTENDS Integers, Sequences, FiniteSets, SequencesExt, Bitwise, TLC

CONSTANTS
  Width,           \* sizeof(int) * 8
  NSockets,        \* hwloc_get_nbobjs_by_type(topology, HWLOC_OBJ_SOCKET)
  CoresPerSocket,  \* cores of each socket
  PusPerCore       \* PUs of each core

\* printme.c:168, "LAZY: Assuming that we won't have more PU's per core
\* than (sizeof(int)*8)": beyond it 1 << sibling_rank is undefined.
ASSUME /\ NSockets >= 1 /\ CoresPerSocket >= 1
       /\ 1 <= PusPerCore /\ PusPerCore <= Width

Sockets == 0 .. NSockets - 1
NbCores == NSockets * CoresPerSocket
Pus == Sockets \X (0 .. CoresPerSocket - 1) \X (0 .. PusPerCore - 1)

\* core->logical_index of the core of PU u, and u's place in logical order.
CoreIndex(u) == u[1] * CoresPerSocket + u[2]
PuRank(u) == CoreIndex(u) * PusPerCore + u[3]

\* The bit of an int and its signed value.
BitSet(b, j) == (b \div 2^j) % 2 = 1
IntOf(b) == IF BitSet(b, Width - 1) THEN b - 2^Width ELSE b

\* snprintf(tmp, stmp, "%d", range_start) or "%d-%d": the text of a range.
RangeTok(a, z) == IF a = z THEN ToString(a) ELSE ToString(a) \o "-" \o ToString(z)

NULL == -1
RANGE_NONE == -999

VARIABLES
  pc,          \* where printme is
  cpuset,      \* the binding hwloc_get_cpubind stored
  heap,        \* the blocks held: topology, cpuset, data, data[0]
  data,        \* data[s][c]: the int bitmap of core c of socket s
  puIndex,     \* pu_index of the first PU loop
  sIdx, cIdx,  \* socket_index and core_index of the str1 and str2 loops
  puPos,       \* pu_index of the str2 loop
  first,       \* first, of the str1 loop
  str1, str2,
  bitmap, bi, rangeStart, rfirst,  \* bitmap2rangestr's argument and locals
  ret,         \* bitmap2rangestr's static ret buffer
  out,         \* what fprintf wrote
  result       \* printme's return value

vars == <<pc, cpuset, heap, data, puIndex, sIdx, cIdx, puPos, first, str1,
          str2, bitmap, bi, rangeStart, rfirst, ret, out, result>>
b2rVars == <<bitmap, bi, rangeStart, rfirst, ret>>

Bitmaps == 0 .. 2^Width - 1
Tok == {","} \cup {RangeTok(a, z) : a, z \in 0 .. Width - 1}

TypeOK ==
  /\ pc \in {"start", "alloc", "pu_loop", "str1_loop", "b2r_loop",
             "str1_entry", "str2_socket", "str2_core", "str2_pu", "report",
             "done"}
  /\ cpuset \subseteq Pus
  /\ heap \subseteq {"topology", "cpuset", "data", "data0"}
  /\ data \in [Sockets -> [0 .. NbCores - 1 -> Bitmaps]]
  /\ puIndex \in 0 .. Cardinality(Pus)
  /\ sIdx \in 0 .. NSockets /\ cIdx \in 0 .. NbCores /\ puPos \in 0 .. PusPerCore
  /\ first \in BOOLEAN /\ rfirst \in BOOLEAN
  /\ bitmap \in Bitmaps /\ bi \in 0 .. Width
  /\ rangeStart \in {RANGE_NONE} \cup 0 .. Width - 1
  /\ ret \in Seq(Tok)
  /\ result \in {NULL, 0, 1}

Init ==
  /\ pc = "start"
  /\ cpuset = {} /\ heap = {}
  /\ data = [s \in Sockets |-> [c \in 0 .. NbCores - 1 |-> 0]]
  /\ puIndex = 0 /\ sIdx = 0 /\ cIdx = 0 /\ puPos = 0 /\ first = TRUE
  /\ str1 = <<>> /\ str2 = <<>>
  /\ bitmap = 0 /\ bi = 0 /\ rangeStart = RANGE_NONE /\ rfirst = TRUE
  /\ ret = <<>> /\ out = <<>> /\ result = NULL

\* hwloc_topology_init/load, hwloc_bitmap_alloc and hwloc_get_cpubind; a
\* failed call prints "Not Bound" and returns 0.  The binding is any
\* non-empty set of PUs: what the scheduler holds for the thread.
GetCpubind ==
  /\ pc = "start"
  /\ heap' = {"topology", "cpuset"}
  /\ \/ pc' = "done" /\ result' = 0 /\ UNCHANGED cpuset
     \/ \E cs \in SUBSET Pus \ {{}} : cpuset' = cs /\ pc' = "alloc"
        /\ UNCHANGED result
  /\ UNCHANGED <<data, puIndex, sIdx, cIdx, puPos, first, str1, str2, out,
                 b2rVars>>

\* data = malloc(nbsockets pointers), data[0] = calloc(nbsockets*nbcores),
\* the rows pointing into data[0].  Either allocation may fail: printme
\* then returns 1, after freeing data when calloc failed, so it holds
\* neither block.
Alloc ==
  /\ pc = "alloc"
  /\ \/ pc' = "done" /\ result' = 1 /\ UNCHANGED <<heap, data, puIndex>>
     \/ pc' = "pu_loop" /\ heap' = heap \cup {"data", "data0"}
        /\ data' = [s \in Sockets |-> [c \in 0 .. NbCores - 1 |-> 0]]
        /\ puIndex' = 0 /\ UNCHANGED result
  /\ UNCHANGED <<cpuset, sIdx, cIdx, puPos, first, str1, str2, out, b2rVars>>

\* The pu_index-th PU inside cpuset, in logical order.
PuInside(set, n) ==
  CHOOSE u \in set : Cardinality({v \in set : PuRank(v) < PuRank(u)}) = n

\* A PU loop that assigns the sibling's bit instead of or-ing it in.
PuLoopAssign ==
  /\ pc = "pu_loop"
  /\ \/ /\ puIndex < Cardinality(cpuset)
        /\ LET u == PuInside(cpuset, puIndex)
           IN data' = [data EXCEPT ![u[1]][CoreIndex(u)] = 2^u[3]]
        /\ puIndex' = puIndex + 1 /\ UNCHANGED <<pc, sIdx, cIdx, first>>
     \/ /\ puIndex = Cardinality(cpuset)
        /\ pc' = "str1_loop" /\ sIdx' = 0 /\ cIdx' = 0 /\ first' = TRUE
        /\ UNCHANGED <<data, puIndex>>
  /\ UNCHANGED <<cpuset, heap, puPos, str1, str2, out, result, b2rVars>>

\* The loop over the bound PUs: walk up to the PU's core and socket and
\* set bit sibling_rank of data[socket_index][core_index].
PuLoop ==
  /\ pc = "pu_loop"
  /\ \/ /\ puIndex < Cardinality(cpuset)
        /\ LET u == PuInside(cpuset, puIndex)
           IN data' = [data EXCEPT ![u[1]][CoreIndex(u)] = @ | 2^u[3]]
        /\ puIndex' = puIndex + 1 /\ UNCHANGED <<pc, sIdx, cIdx, first>>
     \/ /\ puIndex = Cardinality(cpuset)
        /\ pc' = "str1_loop" /\ sIdx' = 0 /\ cIdx' = 0 /\ first' = TRUE
        /\ UNCHANGED <<data, puIndex>>
  /\ UNCHANGED <<cpuset, heap, puPos, str1, str2, out, result, b2rVars>>

\* The next (socket_index, core_index) of the nested str1 loop.
Advance == IF cIdx + 1 < NbCores THEN sIdx' = sIdx /\ cIdx' = cIdx + 1
                                 ELSE sIdx' = sIdx + 1 /\ cIdx' = 0

\* The str1 loop over data: a bitmap with a positive (signed) value goes
\* through bitmap2rangestr (its memset of ret and its initialisation);
\* after the loop data[0] and data are freed.
Str1Loop ==
  /\ pc = "str1_loop"
  /\ \/ /\ sIdx < NSockets /\ IntOf(data[sIdx][cIdx]) > 0
        /\ bitmap' = data[sIdx][cIdx] /\ ret' = <<>> /\ rfirst' = TRUE
        /\ rangeStart' = RANGE_NONE /\ bi' = 0 /\ pc' = "b2r_loop"
        /\ UNCHANGED <<sIdx, cIdx, heap>>
     \/ /\ sIdx < NSockets /\ IntOf(data[sIdx][cIdx]) <= 0
        /\ Advance /\ UNCHANGED <<pc, heap, b2rVars>>
     \/ /\ sIdx = NSockets
        /\ heap' = heap \ {"data", "data0"} /\ pc' = "str2_socket"
        /\ sIdx' = 0 /\ UNCHANGED <<cIdx, b2rVars>>
  /\ UNCHANGED <<cpuset, data, puIndex, puPos, first, str1, str2, out, result>>

\* ret gets a "," before every range but the first, then the range.
AppendRange(a, z) ==
  /\ ret' = ret \o (IF rfirst THEN <<>> ELSE <<",">>) \o <<RangeTok(a, z)>>
  /\ rfirst' = FALSE

\* A loop that ends a range at i rather than i - 1.
B2RBitOffByOne ==
  /\ pc = "b2r_loop" /\ bi < Width
  /\ \/ rangeStart >= 0 /\ BitSet(bitmap, bi) /\ UNCHANGED <<rangeStart, rfirst, ret>>
     \/ /\ rangeStart >= 0 /\ ~BitSet(bitmap, bi)
        /\ AppendRange(rangeStart, bi) /\ rangeStart' = RANGE_NONE
     \/ /\ rangeStart < 0
        /\ rangeStart' = IF BitSet(bitmap, bi) THEN bi ELSE rangeStart
        /\ UNCHANGED <<rfirst, ret>>
  /\ bi' = bi + 1
  /\ UNCHANGED <<pc, bitmap, cpuset, heap, data, puIndex, sIdx, cIdx, puPos,
                 first, str1, str2, out, result>>

\* A loop that runs while i <= the bits of an int.
B2RBitPastWidth ==
  /\ pc = "b2r_loop" /\ bi <= Width
  /\ \/ rangeStart >= 0 /\ BitSet(bitmap, bi) /\ UNCHANGED <<rangeStart, rfirst, ret>>
     \/ /\ rangeStart >= 0 /\ ~BitSet(bitmap, bi)
        /\ AppendRange(rangeStart, bi - 1) /\ rangeStart' = RANGE_NONE
     \/ /\ rangeStart < 0
        /\ rangeStart' = IF BitSet(bitmap, bi) THEN bi ELSE rangeStart
        /\ UNCHANGED <<rfirst, ret>>
  /\ bi' = bi + 1
  /\ UNCHANGED <<pc, bitmap, cpuset, heap, data, puIndex, sIdx, cIdx, puPos,
                 first, str1, str2, out, result>>

\* One iteration of bitmap2rangestr's loop over the bits of the int: a set
\* bit opens or continues a range, a clear bit ends a running range at
\* i - 1 and writes it.
B2RBit ==
  /\ pc = "b2r_loop" /\ bi < Width
  /\ \/ rangeStart >= 0 /\ BitSet(bitmap, bi) /\ UNCHANGED <<rangeStart, rfirst, ret>>
     \/ /\ rangeStart >= 0 /\ ~BitSet(bitmap, bi)
        /\ AppendRange(rangeStart, bi - 1) /\ rangeStart' = RANGE_NONE
     \/ /\ rangeStart < 0
        /\ rangeStart' = IF BitSet(bitmap, bi) THEN bi ELSE rangeStart
        /\ UNCHANGED <<rfirst, ret>>
  /\ bi' = bi + 1
  /\ UNCHANGED <<pc, bitmap, cpuset, heap, data, puIndex, sIdx, cIdx, puPos,
                 first, str1, str2, out, result>>

\* After the loop, a range still open ends at the last bit; then
\* bitmap2rangestr returns ret.
B2REnd ==
  /\ pc = "b2r_loop" /\ bi = Width
  /\ IF rangeStart >= 0 THEN AppendRange(rangeStart, bi - 1)
                        ELSE UNCHANGED <<rfirst, ret>>
  /\ pc' = "str1_entry"
  /\ UNCHANGED <<bitmap, bi, rangeStart, cpuset, heap, data, puIndex, sIdx,
                 cIdx, puPos, first, str1, str2, out, result>>

\* The str1 entry "socket %d[core %d[hwt %s]]", after ", " unless first.
Str1Entry ==
  /\ pc = "str1_entry"
  /\ str1' = str1 \o (IF first THEN <<>> ELSE <<", ">>)
                  \o <<[socket |-> sIdx, core |-> cIdx, hwt |-> ret]>>
  /\ first' = FALSE /\ Advance /\ pc' = "str1_loop"
  /\ UNCHANGED <<cpuset, heap, data, puIndex, puPos, str2, out, result,
                 b2rVars>>

\* A socket loop that does not reset core_index.
Str2SocketNoReset ==
  /\ pc = "str2_socket"
  /\ \/ /\ sIdx < NSockets
        /\ str2' = Append(str2, "[") /\ pc' = "str2_core" /\ UNCHANGED cIdx
     \/ sIdx = NSockets /\ pc' = "report" /\ UNCHANGED <<str2, cIdx>>
  /\ UNCHANGED <<cpuset, heap, data, puIndex, sIdx, puPos, first, str1, out,
                 result, b2rVars>>

\* The str2 loop over every socket: "[", its cores, "]".
Str2Socket ==
  /\ pc = "str2_socket"
  /\ \/ /\ sIdx < NSockets
        /\ str2' = Append(str2, "[") /\ cIdx' = 0 /\ pc' = "str2_core"
     \/ sIdx = NSockets /\ pc' = "report" /\ UNCHANGED <<str2, cIdx>>
  /\ UNCHANGED <<cpuset, heap, data, puIndex, sIdx, puPos, first, str1, out,
                 result, b2rVars>>

\* The cores inside the socket's cpuset, "/" before all but the first;
\* after the last, "]" and the next socket.
Str2Core ==
  /\ pc = "str2_core"
  /\ \/ /\ cIdx < CoresPerSocket
        /\ str2' = IF cIdx > 0 THEN Append(str2, "/") ELSE str2
        /\ puPos' = 0 /\ pc' = "str2_pu" /\ UNCHANGED sIdx
     \/ /\ cIdx = CoresPerSocket
        /\ str2' = Append(str2, "]") /\ sIdx' = sIdx + 1
        /\ pc' = "str2_socket" /\ UNCHANGED puPos
  /\ UNCHANGED <<cpuset, heap, data, puIndex, cIdx, first, str1, out, result,
                 b2rVars>>

\* The PUs inside the core's cpuset: "B" if hwloc_bitmap_isset(cpuset,
\* pu->os_index), else ".".
Str2Pu ==
  /\ pc = "str2_pu"
  /\ \/ /\ puPos < PusPerCore
        /\ str2' = Append(str2, IF <<sIdx, cIdx, puPos>> \in cpuset THEN "B"
                                                                ELSE ".")
        /\ puPos' = puPos + 1 /\ UNCHANGED <<pc, cIdx>>
     \/ /\ puPos = PusPerCore
        /\ cIdx' = cIdx + 1 /\ pc' = "str2_core" /\ UNCHANGED <<str2, puPos>>
  /\ UNCHANGED <<cpuset, heap, data, puIndex, sIdx, first, str1, out, result,
                 b2rVars>>

\* fprintf(stdout, "%s: %s %s\n", hostname, instr, str2), then
\* hwloc_topology_destroy, and printme returns 0.
Report ==
  /\ pc = "report"
  /\ out' = str2 /\ heap' = heap \ {"topology"}
  /\ result' = 0 /\ pc' = "done"
  /\ UNCHANGED <<cpuset, data, puIndex, sIdx, cIdx, puPos, first, str1, str2,
                 b2rVars>>

\* printme has returned.
Returned == pc = "done" /\ UNCHANGED vars

Next ==
  \/ GetCpubind \/ Alloc \/ PuLoop \/ Str1Loop \/ B2RBit \/ B2REnd
  \/ Str1Entry \/ Str2Socket \/ Str2Core \/ Str2Pu \/ Report \/ Returned

Spec == Init /\ [][Next]_vars

-----------------------------------------------------------------------------
(***************************************************************************)
(* Properties                                                              *)
(***************************************************************************)

\* The maximal runs of set bits of an int, in increasing order, and the
\* text that lists them: each run as one number or "a-b", separated by ",".
Runs(b) ==
  {r \in (0 .. Width - 1) \X (0 .. Width - 1) :
     /\ r[1] <= r[2] /\ \A j \in r[1] .. r[2] : BitSet(b, j)
     /\ r[1] = 0 \/ ~BitSet(b, r[1] - 1)
     /\ r[2] = Width - 1 \/ ~BitSet(b, r[2] + 1)}
SortedRuns(b) ==
  LET R == Runs(b)
  IN  [k \in 1 .. Cardinality(R) |->
         CHOOSE r \in R : Cardinality({q \in R : q[1] < r[1]}) = k - 1]
RangeList(b) ==
  LET S == SortedRuns(b)
  IN  [j \in 1 .. 2 * Len(S) - 1 |->
         IF j % 2 = 1 THEN RangeTok(S[(j + 1) \div 2][1], S[(j + 1) \div 2][2])
                      ELSE ","]

\* bitmap2rangestr returns the maximal runs of set bits of its argument,
\* in order, separated by commas: its loop closes a range at the first
\* clear bit (range_end = i - 1), the comma goes before every range but
\* the first, and a range still open after the last bit is written.
RangeStrIsMaximalRuns == pc = "str1_entry" => ret = RangeList(bitmap)

\* The bitmap of each core, once the PU loop is done: bit r of
\* data[s][core] for every bound PU r of that core, nothing else.
BindingBitmaps ==
  [s \in Sockets |-> [c \in 0 .. NbCores - 1 |->
     SumSet({2^u[3] : u \in {v \in cpuset : v[1] = s /\ CoreIndex(v) = c}})]]

\* The loop over the bound PUs records each in its own socket's row at its
\* core's logical index, without losing an earlier bit of the same core:
\* the str1 loop reads exactly the binding.
DataIsBinding ==
  pc \in {"str1_loop", "b2r_loop", "str1_entry"} => data = BindingBitmaps

\* The line printme writes: "[" per socket, its cores separated by "/",
\* a "B" or a "." per PU, "]".
Layout(set) ==
  FlattenSeq([s \in 1 .. NSockets |->
    <<"[">> \o FlattenSeq([k \in 1 .. CoresPerSocket |->
                 (IF k > 1 THEN <<"/">> ELSE <<>>)
                 \o [r \in 1 .. PusPerCore |->
                       IF <<s - 1, k - 1, r - 1>> \in set THEN "B" ELSE "."]])
            \o <<"]">>])

\* What printme writes shows every PU of every socket once, marked B
\* exactly when the thread is bound to it: the nested socket, core and PU
\* loops restart their indices and place the separators right.
Str2ShowsBinding == result = 0 /\ out # <<>> => out = Layout(cpuset)
=============================================================================
