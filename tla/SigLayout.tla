------------------------------ MODULE SigLayout ------------------------------
(***************************************************************************)
(* From registers to test files, and what a test file does when it runs.   *)
(*                                                                         *)
(* After the register passes of RegAlloc, write_test (generator.py) cuts   *)
(* the list into files of at most max_inst instances, and __write_test__   *)
(* writes each file: its code, the labelled regions of its signature and   *)
(* the data its operands are loaded from.  The code consists of macros of  *)
(* env/arch-test/test_macros.h, which fix what it does at run time:        *)
(*   RVTEST_SIGBASE, RVTEST_VALBASEUPD   point a register at a label,      *)
(*   TEST_...                            sets the operands of one instance *)
(*                       and stores its result through the pointer.        *)
(* A file is run here as soon as it is written; a file uses nothing of     *)
(* another one.  Addresses count the words a macro stores, from the start  *)
(* of the signature or of the data; xN is N.  Faulty variants precede the  *)
(* definitions they are mistakes in.                                       *)
(***************************************************************************)
EXTENDS RegAlloc, SequencesExt

CONSTANTS
  Insts,      \* values of --inst, 0 if it is not given
  Words,      \* words that the macro of the template stores
  WordSz,     \* bytes of such a word (StrideSz is computed for the largest XLEN)
  Explicit    \* the template passes $offset to the macro

\* The offsets, in words, that the immediate of a store can have are less than
OffsetWords == (OffsetLimit + 1) \div WordSz

\* A macro stores up to three words, of the 256 or more that an immediate
\* reaches.  A format with a second source operand has a first one.
ASSUME LayoutAssumption ==
  /\ Insts \subseteq Nat
  /\ Words \in Nat \ {0} /\ WordSz \in Nat \ {0} /\ Explicit \in BOOLEAN
  /\ Words < OffsetWords
  /\ "rs2" \in OpVars => "rs1" \in OpVars

VARIABLES
  stage,      \* "allocate", "write", "run" or "stop"
  inst,       \* --inst
  start, end, \* write_test: the file has the instructions start+1..end
  files,      \* the instances in the files written so far, by file number
  written,    \* instances of the open file written so far
  sreg, n,    \* pointer and length in words of the open signature region
  regs,       \* regions opened per pointer, for their labels
  vreg,       \* pointer to the open dataset, 0 for None
  code,       \* the file: pointers set and instances tested, in order
  sign,       \* its signature regions, in order
  data,       \* owners of its data words, in order
  executed,   \* items of code executed
  reg,        \* what the registers point at
  asmoff,     \* the assembler symbol "offset"
  mem,        \* signature: the owner of each word stored
  fetched     \* owners of the words an instance loaded, by instance

writeVars == <<start, end, files, written, sreg, n, regs, vreg, code, sign, data>>
runVars   == <<executed, reg, asmoff, mem, fetched>>
layoutVars == <<stage, inst, writeVars, runVars>>
allVars   == <<vars, layoutVars>>

Sources == Cardinality(OpVars \ {"rd"})                  \* num_vars
Junk    == [area |-> "none", at |-> 0]                   \* not a pointer

-----------------------------------------------------------------------------
\* __write_test__ opens a file with the pointer of its first instance.
OpenFile(lo) ==
  /\ written' = 0 /\ n' = 0 /\ vreg' = 0
  /\ sreg' = swreg[lo + 1]
  /\ regs' = [r \in Regs |-> 0]
  /\ code' = <<>> /\ sign' = <<>> /\ data' = <<>>

\* max_inst, which becomes the length of the list if it is not given.
Chunk == IF inst = 0 THEN Len(instr) ELSE inst

\* The loop of write_test: "while end <= total and start < total".
EnterLoop(lo, hi) ==
  IF hi <= Len(instr) /\ lo < Len(instr)
  THEN stage' = "write" /\ OpenFile(lo)
  ELSE stage' = "stop" /\ UNCHANGED <<written, sreg, n, regs, vreg, code, sign, data>>

LayoutInit ==
  /\ Init
  /\ stage = "allocate" /\ inst \in Insts
  /\ start = 0 /\ end = 0 /\ files = <<>>
  /\ written = 0 /\ sreg = 0 /\ n = 0 /\ vreg = 0
  /\ regs = [r \in Regs |-> 0]
  /\ code = <<>> /\ sign = <<>> /\ data = <<>>
  /\ executed = 0 /\ reg = [r \in Regs |-> Junk] /\ asmoff = 0
  /\ mem = Empty /\ fetched = Empty

Allocate == stage = "allocate" /\ Next /\ UNCHANGED layoutVars

WriteTest ==
  /\ stage = "allocate" /\ pass = "done"
  /\ start' = 0 /\ end' = Chunk
  /\ EnterLoop(0, Chunk)
  /\ UNCHANGED <<vars, inst, files, runVars>>

\* The regions of a signature are placed one after the other.
SignEnd == IF sign = <<>> THEN 0 ELSE Last(sign).at + Last(sign).size
RegionLonger == [label |-> <<sreg, regs[sreg]>>, at |-> SignEnd, size |-> n + Stride]
Region  == [label |-> <<sreg, regs[sreg]>>, at |-> SignEnd, size |-> n]

\* A new dataset is labelled where the data ends so far.
NewDatasetFaulty(i) == HasVal /\ valreg[i] # vreg
NewDataset(i) == HasVal /\ (valoffset[i] = 0 \/ valreg[i] # vreg)
ValbaseUpd(i) == IF NewDataset(i)
                 THEN <<[op |-> "valbase", r |-> valreg[i], at |-> Len(data)]>> ELSE <<>>

\* The current region is closed when the pointer changes or the offset is 0,
\* and RVTEST_SIGBASE points at the label of the next one.
NewRegionFaulty(i) == swreg[i] # sreg \/ written = 0
NewRegion(i) == swreg[i] # sreg \/ offset[i] = 0
Sigbase(r, k) == <<[op |-> "sigbase", r |-> r, label |-> <<r, k>>]>>

WriteInstance ==
  /\ stage = "write" /\ start + written < end
  /\ LET i    == start + written + 1
         used == [regs EXCEPT ![sreg] = @ + 1]
         test == <<[op |-> "test", i |-> i]>>
     IN  /\ vreg' = IF NewDataset(i) THEN valreg[i] ELSE vreg
         /\ data' = IF HasVal THEN data \o [j \in 1..Sources |-> <<i, j>>] ELSE data
         /\ IF NewRegion(i)
            THEN /\ sign' = Append(sign, Region)
                 /\ n' = Stride /\ sreg' = swreg[i] /\ regs' = used
                 /\ code' = code \o ValbaseUpd(i) \o Sigbase(swreg[i], used[swreg[i]]) \o test
            ELSE /\ n' = n + Stride
                 /\ code' = code \o ValbaseUpd(i) \o test
                 /\ UNCHANGED <<sign, sreg, regs>>
  /\ written' = written + 1
  /\ UNCHANGED <<vars, stage, inst, start, end, files, runVars>>

\* The last region is closed, the file is written, and a run of it starts with
\* a fresh signature.
CloseFile ==
  /\ stage = "write" /\ start + written = end
  /\ sign' = Append(sign, Region)
  /\ files' = Append(files, (start + 1)..end)
  /\ stage' = "run"
  /\ executed' = 0 /\ reg' = [r \in Regs |-> Junk] /\ asmoff' = 0
  /\ mem' = Empty /\ fetched' = Empty
  /\ UNCHANGED <<vars, inst, start, end, written, sreg, n, regs, vreg, code, data>>

-----------------------------------------------------------------------------
Execute(op) == stage = "run" /\ executed < Len(code) /\ code[executed + 1].op = op
Item == code[executed + 1]

RunSigbaseFaulty ==
  /\ Execute("sigbase")
  /\ \E s \in ToSet(sign) :
       /\ s.label = Item.label
       /\ reg' = [reg EXCEPT ![Item.r] = [area |-> "sig", at |-> s.at]]
  /\ executed' = executed + 1
  /\ UNCHANGED <<vars, stage, inst, writeVars, asmoff, mem, fetched>>

RunSigbase ==
  /\ Execute("sigbase")
  /\ \E s \in ToSet(sign) :
       /\ s.label = Item.label
       /\ reg' = [reg EXCEPT ![Item.r] = [area |-> "sig", at |-> s.at]]
  /\ asmoff' = 0
  /\ executed' = executed + 1
  /\ UNCHANGED <<vars, stage, inst, writeVars, mem, fetched>>

RunValbase ==
  /\ Execute("valbase")
  /\ reg' = [reg EXCEPT ![Item.r] = [area |-> "data", at |-> Item.at]]
  /\ executed' = executed + 1
  /\ UNCHANGED <<vars, stage, inst, writeVars, asmoff, mem, fetched>>

Clobber(S) == [r \in Regs |-> IF r \in S THEN Junk ELSE reg[r]]

\* LOAD_MEM_VAL: the operand registers, first to last, from the data pointer.
Source == <<"rs1", "rs2">>
Loaded(i) ==
  LET base(j)   == Clobber({instr[i][Source[k]] : k \in 1..(j - 1)})[valreg[i]]
      word(j)   == base(j).at + valoffset[i] + j
  IN  [j \in 1..Sources |->
         IF base(j).area = "data" /\ word(j) \in DOMAIN data THEN data[word(j)] ELSE <<0, 0>>]

\* The assembler symbol "offset" when an instance begins to store.
Off(i) == IF Explicit THEN offset[i] ELSE asmoff

\* CHK_OFFSET, before each store: an offset beyond the immediate is reduced, and
\* the pointer advanced, by the same number of words.  Of the words that follow
\* one another from off, word w is stored after skipping so many, at offset Low.
ExcessFaulty(off) == IF off > OffsetWords THEN OffsetWords - 1 ELSE 0
Excess(off) == IF off >= OffsetWords THEN OffsetWords - 1 ELSE 0
Skipped(off, w) == Excess(off) + Excess(off - Excess(off) + w - 1)
Low(off, w) == off + w - 1 - Skipped(off, w)

\* One instance: the operands, the scratch and the flag register are written,
\* the result is stored through what the pointer is then, RVTEST_SIGUPD*.  There
\* is no store with an offset that is not an immediate.
RunTest ==
  /\ Execute("test")
  /\ LET i    == Item.i
         file == Clobber(Operands(i) \cup Given(testreg, i) \cup Given(flagreg, i))
         p    == file[swreg[i]]
         skip == Skipped(Off(i), Words)
         here == p.at + Off(i)
         word == {a \in here..(here + Words - 1) : Low(Off(i), a - here + 1) < OffsetWords}
     IN  /\ fetched' = IF HasVal
                       THEN [k \in DOMAIN fetched \cup {i} |->
                               IF k = i THEN Loaded(i) ELSE fetched[k]]
                       ELSE fetched
         /\ mem' = IF p.area = "sig"
                   THEN [a \in DOMAIN mem \cup word |->
                           IF a \in word THEN <<i, a - here + 1>> ELSE mem[a]]
                   ELSE mem
         /\ reg' = [file EXCEPT ![swreg[i]].at = @ + skip]
         /\ asmoff' = Off(i) + Words - skip
  /\ executed' = executed + 1
  /\ UNCHANGED <<vars, stage, inst, writeVars>>

NextFileFaulty ==
  /\ stage = "run" /\ executed = Len(code)
  /\ LET lo == start + Chunk
         hi == IF Len(instr) > end THEN end + Chunk ELSE Len(instr)
     IN  start' = lo /\ end' = hi /\ EnterLoop(lo, hi)
  /\ UNCHANGED <<vars, inst, files, runVars>>

\* The loop of write_test goes on to the next file.
NextFile ==
  /\ stage = "run" /\ executed = Len(code)
  /\ LET lo == start + Chunk
         hi == IF Len(instr) - end >= Chunk THEN end + Chunk ELSE Len(instr)
     IN  start' = lo /\ end' = hi /\ EnterLoop(lo, hi)
  /\ UNCHANGED <<vars, inst, files, runVars>>

LayoutNext ==
  \/ Allocate \/ WriteTest \/ WriteInstance \/ CloseFile
  \/ RunSigbase \/ RunValbase \/ RunTest \/ NextFile

LayoutSpec == LayoutInit /\ [][LayoutNext]_allVars /\ WF_allVars(LayoutNext)

-----------------------------------------------------------------------------
(***************************************************************************)
(* Properties                                                              *)
(***************************************************************************)
\* A file has been run to its end.
Finished == stage = "run" /\ executed = Len(code)
InFile   == (start + 1)..end

\* ... and begins with a signature region, as every file but one cut off with
\* --inst does.
Whole == Finished /\ offset[start + 1] = 0

Saved(i) == \A w \in 1..Words : \E a \in DOMAIN mem : a < SignEnd /\ mem[a] = <<i, w>>

\* Each instance gets "a signature register to save the result" (overview.rst):
\* after a run, all words of the result of every instance are in the signature.
\* None was stored through a lost pointer, overwritten by another instance or
\* put behind the end of the signature.
ResultsSaved == Whole => \A i \in InFile : Saved(i)

\* ... and nothing else is: no word of the signature keeps its fill value
\* 0xdeadbeef.  The lengths in the .fill directives are exact, and so two runs
\* that agree on the results agree on the whole signature.
SignatureExact == ResultsSaved /\ (Whole => 0..(SignEnd - 1) \subseteq DOMAIN mem)

\* An instance loads its own operand values, not those of another one, although
\* values are laid out in the order of writing and found by pointer and offset.
LoadsOwnOperands ==
  \A i \in DOMAIN fetched : \A j \in DOMAIN fetched[i] : fetched[i][j] = <<i, j>>

\* --inst is the "maximum number of macro instances per test" (main.py): with
\* at least that many instances, every one is in exactly one file and no file
\* has more.  (With fewer instances the loop of write_test is never entered.)
FilesPartition ==
  stage = "stop" /\ Len(instr) >= inst =>
    /\ \A i \in 1..Len(instr) : Cardinality({f \in DOMAIN files : i \in files[f]}) = 1
    /\ \A f \in DOMAIN files : inst # 0 => Cardinality(files[f]) \in 1..inst

-----------------------------------------------------------------------------
\* The inductive invariant behind the properties above.
Regions == [label : Regs \X Nat, at : Nat, size : Nat]
Items ==
  [op : {"test"}, i : Nat] \cup [op : {"sigbase"}, r : Regs, label : Regs \X Nat]
    \cup [op : {"valbase"}, r : Regs, at : Nat]

LayoutTypeOK ==
  /\ stage \in {"allocate", "write", "run", "stop"} /\ inst \in Insts
  /\ start \in Nat /\ end \in Nat /\ written \in Nat /\ n \in Nat /\ executed \in Nat
  /\ sreg \in Regs \cup {0} /\ (stage = "write" => sreg \in Regs) /\ vreg \in Regs \cup {0}
  /\ regs \in [Regs -> Nat]
  /\ files \in Seq(SUBSET Nat)
  /\ code \in Seq(Items) /\ sign \in Seq(Regions) /\ data \in Seq(Nat \X Nat)
  /\ reg \in [Regs -> [area : {"none", "sig", "data"}, at : Int]] /\ asmoff \in Int

\* The files written so far have the first m instances, each once.
Cover(m) ==
  /\ \A f \in DOMAIN files :
       \E lo, hi \in 1..m : lo <= hi /\ hi - lo < Chunk /\ files[f] = lo..hi
  /\ \A i \in 1..m :
       \E f \in DOMAIN files :
         i \in files[f] /\ \A g \in DOMAIN files : i \in files[g] => g = f

FilesInv ==
  /\ stage = "allocate" => start = 0 /\ end = 0 /\ files = <<>>
  /\ stage # "allocate" => pass = "done"
  /\ stage \in {"write", "run"} =>
       /\ start < end /\ end <= Len(instr) /\ written <= end - start
       /\ end = start + Chunk \/ (end = Len(instr) /\ end < start + Chunk)
  /\ stage = "write" => Cover(start)
  /\ stage = "run" => Cover(end) /\ written = end - start /\ executed <= Len(code)
  /\ stage = "stop" /\ inst <= Len(instr) => Cover(Len(instr))

\* The first file has the first Chunk instances.
StartInv == start = 0 \/ Chunk <= start

\* The signature is as it should be, in a file that begins with a region, where
\* the stride counts the words of the macro; it may leave some unused if each
\* instance has its own offset, which then is in words of at most StrideSz.
Sized == IF Explicit THEN Words <= Stride /\ WordSz <= StrideSz ELSE Words = Stride
Exact == Sized /\ Words = Stride

\* Likewise for the data.
Laid  == offset[start + 1] = 0
Valid == HasVal /\ ValStride = Sources /\ valoffset[start + 1] = 0
NewData(t) == HasVal /\ (t = 1 \/ valoffset[start + t] = 0)

\* Item k of the code belongs to the t-th instance of the file, whose items are
\* an RVTEST_VALBASEUPD and an RVTEST_SIGBASE, where it needs them, and its test.
Labelled(l, a) ==
  \/ \E s \in DOMAIN sign : sign[s].label = l /\ sign[s].at = a
  \/ stage = "write" /\ l = <<sreg, regs[sreg]>> /\ a = SignEnd
TestAt(k, t) == k \in DOMAIN code /\ code[k] = [op |-> "test", i |-> start + t]
SigAt(k, t) ==
  /\ k \in DOMAIN code /\ code[k].op = "sigbase" /\ offset[start + t] = 0
  /\ code[k].r = swreg[start + t] /\ Labelled(code[k].label, Stride * (t - 1))
  /\ TestAt(k + 1, t)
ValAt(k, t) ==
  /\ k \in DOMAIN code /\ NewData(t)
  /\ code[k] = [op |-> "valbase", r |-> valreg[start + t], at |-> Sources * (t - 1)]
  /\ SigAt(k + 1, t) \/ (TestAt(k + 1, t) /\ offset[start + t] # 0)
Begins(k, t) ==
  \/ ValAt(k, t)
  \/ ~NewData(t) /\ SigAt(k, t)
  \/ ~NewData(t) /\ offset[start + t] # 0 /\ TestAt(k, t)

\* What has been written of a file.
TestsInv ==
  \A k \in DOMAIN code : code[k].op = "test" => code[k].i \in (start + 1)..(start + written)

CodeInv ==
  /\ written = 0 => code = <<>>
  /\ written > 0 => Begins(1, 1) /\ TestAt(Len(code), written)
  /\ \A k \in DOMAIN code, t \in 1..written :
       TestAt(k, t) => IF t = written THEN k = Len(code) ELSE Begins(k + 1, t + 1)

SignInv ==
  /\ SignEnd + (IF stage = "write" THEN n ELSE 0) = Stride * written
  /\ \A s, t \in DOMAIN sign : sign[s].label = sign[t].label => s = t
  /\ stage = "write" =>
       /\ sreg = swreg[IF written = 0 THEN start + 1 ELSE start + written]
       /\ \A s \in DOMAIN sign : sign[s].label[2] < regs[sign[s].label[1]]

DataInv ==
  stage = "write" /\ HasVal => vreg = IF written = 0 THEN 0 ELSE valreg[start + written]

Owned ==
  HasVal => /\ Len(data) = Sources * written
            /\ \A t \in 1..written, j \in 1..Sources :
                 data[Sources * (t - 1) + j] = <<start + t, j>>

FileInv ==
  stage \in {"write", "run"} =>
    /\ TestsInv /\ Owned /\ DataInv
    /\ Laid => CodeInv /\ SignInv

\* How far a file has run: the pointers the next instance needs are set, and
\* the signature has the results of the instances before it.
SigSet(t) ==
  Sized =>
  LET i == start + t
  IN  /\ reg[swreg[i]].area = "sig" /\ reg[swreg[i]].at + Off(i) = Stride * (t - 1)
      /\ Off(i) \in 0..OffsetWords
ValSet(t) ==
  Valid => LET p == reg[valreg[start + t]]
           IN  p.area = "data" /\ p.at + valoffset[start + t] = Sources * (t - 1)
Stored(t) ==
  Sized =>
  /\ \A u \in 1..t, w \in 1..Words :
       LET a == Stride * (u - 1) + w - 1
       IN  a \in DOMAIN mem /\ mem[a] = <<start + u, w>>
  /\ Words = Stride => 0..(Stride * t - 1) \subseteq DOMAIN mem

Running(t) ==
  /\ Stored(t - 1)
  /\ \/ t = written + 1 /\ executed = Len(code)
     \/ ValAt(executed + 1, t) /\ (offset[start + t] # 0 => SigSet(t))
     \/ SigAt(executed + 1, t) /\ ValSet(t)
     \/ TestAt(executed + 1, t) /\ SigSet(t) /\ ValSet(t)

RunInv ==
  /\ stage = "run" /\ Laid => \E t \in 1..(written + 1) : Running(t)
  /\ Insts = {0} /\ ValStride = Sources => LoadsOwnOperands

LayoutIInv == LayoutTypeOK /\ FilesInv /\ StartInv /\ FileInv /\ RunInv
=============================================================================
