# rvp-verify in TLA+

`rvp-verify` checks the Sail model of the RISC-V P extension: a generator
(`riscv-ctg`) writes assembly tests from coverage files, a runner pushes each
test through preprocessor, assembler, linker and simulator, and a report
counts the verdicts. The tests run in an environment of assembler macros that
handles their traps. This directory specifies those parts in TLA+, checks the
specifications with TLC on small instances, and proves the central invariants
with TLAPS for all values of the constants.

Paths such as `generator.py` are short for `src/riscv-ctg/riscv_ctg/generator.py`.

## 1. Inventory

| component | source | state it keeps | operations | interacts with |
|---|---|---|---|---|
| operand and value combinations | `generator.py` 337-1007 | lists of coverpoints still to cover, used registers | `opcomb`, `valcomb`, `gen_inst` | hands the list of instructions to the register passes |
| register allocation | `generator.py` 1016-1284 | pool of free registers, window, registers and offsets of each instruction | `swreg`, `testreg`, `valreg` | reads and extends the instructions in place |
| test files and signature layout | `generator.py` 1361-1492, `test_macros.h` | slice, open signature region, open dataset; at run time pointers, running offset, signature memory | `write_test`, `__write_test__`, the `RVTEST_*`/`TEST_*` macros | writes files the runner executes |
| SIMD and register-pair data | `dsp_function.py`, `test_macros.h` | the dictionary of an instruction; at run time the operand registers | `concat_simd_data`, `gen_pair_reg_data`, the loads of `TEST_*_OP` | called by `gen_inst`, feeds the macros |
| generation driver | `ctg.py`, `main.py` | process pool, output directory | `ctg`, `create_test` | one worker per cover group, all writing to one directory |
| CSR combinations | `csr_comb.py` | parser stacks, list of instances; at run time the CSRs, the registers that keep them, the signature | `parse_csr_covpt`, `csr_comb`, `write_test` | same layout macros |
| cross combinations | `cross_comb.py` | window of instructions, names set with `exec`, signature labels | `cross_comb`, `swreg`, `write_test` | same layout macros |
| test suite runner | `run_suite.sh` | `results.tsv`, scratch files `tmp/t.*`, saved logs and signatures | one pipeline per test | calls gcc, as, ld, the simulator |
| report | `gen_report.py` | none | counts rows and mnemonics | reads `results.tsv` |
| build | `build.sh` | build directories | configure, make | products used by the runner and `verify_insn.sh` |
| single-instruction check | `verify_insn.sh` | pass/fail counters | encode, decode, run cases | calls binutils and the simulator |
| trap handler | `env/arch-test/arch_test.h` | shared trap signature pointer; a save area for each mode with its registers, CSRs and the code the trampoline replaces | prolog, handlers, epilog, `RVTEST_GOTO_MMODE`, `RVTEST_GOTO_LOWER_MODE` | runs inside a test; the handler of M mode interrupts that of S mode |
| instruction and CSR encodings | `env/arch-test/encoding.h`, `arch_test.h` 608-649 | none (tables) | match/mask rows, addresses, causes, renaming for a mode | used by the trap handler, and by whoever includes the header with `DECLARE_INSN` |

### What is hard

Concurrency is limited to the worker pool of the driver and to traps that interrupt
a test or the trap handler of a lower mode; most of the risk lies
in *long sequential passes over shared lists*, in facts kept in two places, and
in files that survive an interruption:

* **Deferred assignment.** A register pass decides on a register at the end of
  a window and gives it to instructions it scanned long before. Whether the
  register is still free for all of them depends on everything the pool has
  lost since; a unit test of one instruction cannot show a clash.
* **Facts kept in two places.** The generator counts the strides of a signature
  region, the macros store words at offsets the assembler counts again, and the
  stride itself is data in `p.yaml`. They have to agree at every region
  boundary, at every offset wrap and at every file boundary.
* **Slices of a whole.** Offsets and windows are computed for the complete list;
  `--inst` cuts the list afterwards.
* **Interruption and leftovers.** The runner truncates one result file and
  overwrites others; the driver overwrites files of an earlier generation; the
  build skips steps whose product exists.
* **Partial failure.** A coverpoint without a solution, a test that does not
  assemble, a worker that exits, a trampoline that can be written halfway.
* **A shared pointer.** The handlers of all modes advance one signature pointer, and pass
  the registers of what they interrupt through a CSR and a save area, while
  a handler of a higher mode may interrupt them at any instruction.

`PROJECT.json` lists the hazards line by line with the properties that cover
them, and the ones no property covers yet.

### What makes each component correct

* *register allocation*: no pointer, scratch, data or flag register of an
  instruction is one of the other registers it uses; every instruction is
  served; no pass runs out of registers.
* *layout*: every result is in the signature after a run, the signature has no
  unused word, each instance loads its own operands, each instance is in
  exactly one file.
* *combinations*: every coverpoint that can be covered is covered, operand by
  operand; no list shrinks without progress.
* *SIMD and pair data*: when the instruction executes, its registers hold the elements that
  its coverage is counted for.
* *cross combinations*: the window of a coverpoint satisfies it, whatever earlier windows left, and
  random choices do not run into needless dead ends.
* *CSR combinations*: a coverpoint is understood as the expression it is; the
  writes of an instance bring about the state its coverpoint asks for, and are undone.
* *driver*: every cover group and mnemonic ends up in files that no other one
  overwrites; the driver ends.
* *runner, report*: a row says what happened to its own test in this run; files
  kept under a test's name are its own.
* *build*: a build that reports success has all the products it names, of the
  sources as they are, and `--fresh` recovers from whatever earlier builds left.
* *trap handler*: each trap has a signature entry of its own, which stays as it was
  written; registers of the interrupted code, trap CSRs and overwritten code are restored,
  however the test ends; it ends.
* *encodings*: a word has one meaning, an address names one CSR, and a handler names
  CSRs that its mode may use.

## 2. Plan

| order | module | models | composes | status |
|---|---|---|---|---|
| 1 | `RegAlloc` | register passes | | done |
| 2 | `SigLayoutProofs`, first part | type correctness, register disjointness and offsets, for all constants | `RegAlloc` | done |
| 3 | `SigLayout` | file writer and the files at run time | `RegAlloc` | done |
| 4 | `RunSuite`, `SuiteOrder` | runner, interrupted and repeated, with the report; what it promises | | done |
| 5 | `RunSuiteProofs` | properties of the runner and its refinement, for all suites | `RunSuite`, `SuiteOrder` | done |
| 6 | `Build` | incremental build with failing and interrupted steps | | done |
| 7 | `CtgPool` | driver, worker pool and output directory | | done |
| 8 | `OpComb`, `GenInst` | from coverpoints to instructions: greedy cover, values, filter | | done |
| 9 | `GenInstProofs` | coverage, for all covergroups | `OpComb`, `GenInst` | done |
| 10 | `CsrParse`, `CsrComb` | parser of CSR coverpoints against their meaning as expressions; solutions, instances, and the test at run time | | done |
| 11 | `DspData` | elements of SIMD and paired operands, packed and loaded | | done |
| 12 | `InsnEncoding`, `CsrEncoding`, `Encoding` | the tables of `encoding.h`, and their use | | done |
| 13 | `TrapSetup`, `TrapHandler` | prolog and epilog; trap entry, nesting, signature pointer | `CsrEncoding` | done |
| 14 | `TrapHandlerProofs` | its four safety properties, for all constants | `TrapHandler` | done |
| 15 | `CrossComb`, `CombFiles` | windows of dependent instructions; the order of cross and CSR combinations | `CrossComb`, `CsrComb` | done |
| 16 | `BuildProofs` | what a build has made sure of, for any number of source changes | `Build` | done |
| 17 | `SigLayoutProofs`, second part | files, signature and data, for all lists of instructions and sizes | `SigLayout` | done |
| 18 | `CtgPoolProofs` | failures stay in their chunk, for all CGFs and numbers of workers | `CtgPool` | done |
| 19 | `CombProofs` | cross combinations; CSRs, signature and coverage of CSR combinations, for all coverpoints | `CombFiles` | done |
| 20 | `ParseProofs` | the parser of CSR coverpoints, for all expressions; from the coverpoint to the write that hits it | `CombProofs` | done |

Abstract specifications worth stating: a layout in which each instance owns a
row of the signature (implemented by `SigLayout` with one file); a suite run as
one atomic step per test (`SuiteOrder`, implemented by `RunSuite`); an
instruction list that covers a set of coverpoints (what `GenInst` makes of rich ones).
Theorems worth proving next: a layout with a row for each instance, and
`SigLayout` as an implementation of it, which would state `SignatureExact` and
`LoadsOwnOperands` in one.

## 3. Modules

### `RegAlloc`: register allocation

`gen_inst` returns a list of instruction dictionaries; `gen_test` in `ctg.py`
runs `swreg`, `testreg` and, if the template has a `val` section, `valreg` over
the whole list. `instr` is that list, restricted to the operand registers;
`pass` says which function runs; `count`, `assigned` and `avail` are the local
variables of the running function; `swreg`, `offset`, `testreg`, `valreg`,
`valoffset` and `flagreg` are the keys the passes add, as functions from the
index of an instruction (a missing key is an index outside the domain).

One action is one iteration of a pass' loop over the list, or the code behind the
loop:

| action | code |
|---|---|
| `SwregKeep`, `TestregKeep`, `ValregKeep` | an instruction's registers leave the pool, which stays above the threshold |
| `SwregWindow`, `TestregWindow`, `ValregWindow` | the pool has reached the threshold: `available_reg[0]` goes to every instruction of the window, the pool is refilled |
| `SwregDone`, `TestregDone`, `ValregDone` | the instructions left after the loop are served, the next pass starts |

Three details of the code are kept because the properties depend on them.
`swreg` and `valreg` take the high half of a pair out of the pool together with
the low half; `testreg` does so only if the low half was still in the pool. The
thresholds count operands and pairs (`2 + ...` and `3 + ...`). `valreg` indexes
`available_reg[1]` for the flag register. Indexing an empty pool (an
`IndexError`) is a pass without a step; `PoolSuffices` and `Completes` exclude it.

Left out: the operand values (`correct_val`, data section entries), `rs3` (the
formats modelled have up to three operands), and everything that only formats.

`StrideSz` and `ValStrideSz` are the sizes the code *evaluates*. For sizes
written in terms of `FLEN` that is 0, since the code tests `if flen in
self.opnode` with the global integer, and then offsets never wrap. In the templates
of the repository only sizes of values (`val`) use `FLEN`; those of signatures are
`XLEN/8` or `SIGALIGN`, which are not 0.

### `SigLayout`: test files and their execution

`SigLayout` extends `RegAlloc`. `Allocate` is a step of the passes. `WriteTest`,
`NextFile` are the loop of `write_test` over slices of `max_inst` instances (`inst`);
`WriteInstance` is one iteration of the loop of `__write_test__`, `CloseFile`
the code behind it. A file is a sequence of macro invocations (`code`), a
sequence of labelled regions (`sign`, the `.fill` lines of the signature) and a
sequence of data words (`data`).

A file is then executed: `RunSigbase`, `RunValbase` and `RunTest` are the
effects of the macros of `test_macros.h`. A register that a macro writes holds
`Junk`, a pointer is an area and a word address, so a result stored through a
clobbered or never set pointer is lost. `Excess` is `CHK_OFFSET`, which moves the
pointer once an offset no longer fits a store; `Skipped` is what it does over the words of an
instance, and a word whose offset it leaves out of reach (`Low`) is not stored. `Explicit` distinguishes
templates that pass `$offset` from those that leave it to the assembler symbol
`offset`, which `RVTEST_SIGBASE` resets. `StrideSz` (the size the generator
uses) and `WordSz` (the size the macro stores on the XLEN at hand) are separate
constants, since the code computes them separately.

Running each file right after it is written loses nothing: a file contains no
reference to another one. Left out: ISA strings, banners, and the trap handler, which
`run_suite.sh` does not ask for (it does not define `rvtest_mtrap_routine`) and which has
modules of its own.

### `RunSuite`, `SuiteOrder`: the runner and the report

`pc` is the command that `run_suite.sh` executes next, `suite` and `n` the call
of `scan_suite` and its counter, `rows` the file `results.tsv`, `tmp` the scratch
files `tmp/t.*`, `kept` the files `sig_*`, `fail_*` in `OUT` by their name. A file is
a record of the test it is about, the run that wrote it and what it says, so
that properties can tell a leftover from a result. `shown` is the only variable
without a counterpart in the code: what the tools did with each test.

| action | code |
|---|---|
| `Start` | `: > results.tsv`; kept files and scratch files stay |
| `NextTest`, `NextSuite` | the loop over `find \| sort` with `LIMIT`, and `rm -f t.*` |
| `Preprocess`, `Assemble`, `Link` | one tool; `t.err` is overwritten in either case |
| `Simulate`, `Timeout` | success, failure, instruction limit (exit code 0 too), or a hang that `timeout 90` ends |
| `Judge` | the `grep SUCCESS` and the exit codes |
| `AppendRow`, `KeepErr`, `KeepLog`, `KeepSig` | the row, and the files that exist and are not empty |
| `Interrupt` | a signal between any two commands |

`NPass` and `ByXlen` are the totals that `gen_report.py` computes. The names
under which files are kept are tuples of the parts of `rv<xlen>_<page>_<test>`;
that no two tuples print alike is a fact about the names in the suite (in
`results/baseline/results.tsv` no two do).

`SuiteOrder` says what a run promises: an empty `results.tsv`, then one row at a
time, in the order of the list, at most `LIMIT` for each suite. `Promise` is
`SuiteOrder`'s specification under the identity mapping of `limit` and `rows`;
every command but `Start` and `AppendRow` is a stutter.

### `CtgPool`: the generation driver

`main` is the process that runs `ctg()`, `groups` its `args_list`; `queue`, `left` and
`failed` are the state of the call of `starmap`; `job[w]` are the tasks left in
the chunk of worker `w` and `at[w]` where in `create_test` it is. `out` is the output
directory, which outlives a run: a file is known by its label and slice, as its
name is made from these, and records the run and the mnemonic it is from.

One action is one part of `create_test`: `Skip` and `Begin` its first tests, `GenTest` a
mnemonic (all its files: only this task has their names), `NoTemplate`,
`CrossComb`, `CheckOpNode` and `CsrComb` the rest. Whether generating a
covergroup succeeds, raises or exits is a property of the CGF here. The pool is
external: `starmap` splits the tasks into about four chunks per process; an
exception ends a chunk, and is raised in the driver when all chunks are back; a worker
that calls `sys.exit` is replaced, but its chunk never comes back.

### `OpComb`, `GenInst`: from coverpoints to instructions

`OpComb` is `opcomb`: `op_conds`, `op_comb`, `cond`, `individual` and `nodiff` are its local
variables, conditions are known by their index. One iteration of its loop is one
action, by what the solver answers: `Solve`, `SolveRepeated` (the random solver, asked
again), `Loosen` (the first two failures), `GiveUp` (the third), and `NoSuchOperand` (a
`KeyError`). `Candidates` are the solutions of the problem the iteration builds; the
solver returns any of them. A failure puts the condition back if its text names
registers. This `cond` may be one of an earlier iteration, and was covered then.

A condition is *rich* (`IsRich`) if it has many solutions that have no operand in
common: more than the combinations for the other conditions can use up. `rs1 == rs2`
over 31 registers is rich in a covergroup with five conditions on three operands.

`GenInst` adds `valcomb` (`SolveValue`, `TakeGiven`, `SkipValue`, `Exit`, one iteration each) and
`gen_inst`: `Pair` is an iteration of the loop over `zip(op_comb, val_comb)`, `Repeat` one of the
loop over `cont`, `Filter` one of the loop that drops what adds no coverage.
`default` is what the constructor computed (`get_default_registers`); `NoDefault` is the `TypeError`
where there is nothing to compute. Coverpoints are sets of the assignments that satisfy
them; what the evaluation of their text does is data. Left out: formats with
default registers of their own, the float fields of `#nosat` conditions, and the comments,
which name the coverpoints of an instruction.

### `CsrParse`, `CsrComb`: CSR coverpoints

`CsrParse` is `parse_csr_covpt`, one action for each branch of the loop over the tokens
(`OpenBracket`, `CloseInClause`, `CloseAfterClause`, `CloseGroup`, `Operator`, `TextToken`) and for
the code behind it (`EndOfTokens`, `Parsed`). The four inner loops that take operators off the stack
are one action, `Apply`, which `phase` sends back to the right branch (`PushOperator`, `GroupDone`,
`ClauseDone`). `Reject` is the `except` of `csr_comb`: an index out of range or an empty stack
loses this coverpoint and no other. An expression object is kept as the two things that matter of
it, the list that its `SAT()` returns and its meaning, the set of truth assignments that
make it true. The meaning is also given with each coverpoint, so that `ParsedRight` compares the parser
with an independent source: `Grammar` is the least set of texts with a meaning that has the clauses and is closed under
brackets, `not`, `and` and `or` with the precedence Python gives them, and a coverpoint *is an
expression* (`IsExpression`) if it is in that set. The coverpoints
of a covergroup are an `OrderedSet`: lists without repetitions. A covergroup without one goes
straight to `write_test`.

`CsrComb` continues with the solutions. `AddInstance` is one iteration of `for sol, _ in sols`: the
clauses are merged for each register, the register with a modifier is sorted to the end, and the
instance gets its writes, its reads (with offsets that run through the file, from `first` on) and its
restores. The comparison the code sorts with is not an order; what `list.sort` makes of it is
the reverse of the order of insertion, with the register in question last. `WriteTest` is
`write_test` (`Macros` puts the macros of the instances one after the other), and three actions run the file. The macros `WRITE_TO_CSR_FIELD_W_MASK`,
`READ_CSR_REG_AND_UPD_SIG` and `RESTORE_CSR_REG` are not defined in this repository: their
parameters (register, mask, value, register that keeps the old value; offset) say what they
have to do. `hit` records the coverpoints that held after a write, with `old()` the value before it
and `write()` the value written.

Left out: the text of masks, values and shifts, which `eval` computes; the repair of
the text by `untokenize`; CSRs with read-only or WARL fields, which are the business of the
simulator.

### `CrossComb`, `CombFiles`: windows of dependent instructions

`SolveItem` is one iteration of the loop over the items of a cross coverpoint: an instruction is
picked, then registers that meet the condition, then the assignments are executed. `scope` is what
makes it subtle: operands and variables are names that `exec` puts into the scope of `cross_comb`, and they
stay there for the rest of the call (in Python up to 3.12; from 3.13 on, `exec` no longer writes there
and all conditions with variables fail). `random.choice` is an existential, the constraint solver the set of solutions.
`ItemRaises` and `WriteRaises` are the exceptions: a name that is not set, no instruction, no register left, an instruction that is not in
the template, a format with an operand that cross combinations lack (`prints`). `WriteWindow` is one
iteration of the loop of `write_test`: pointer, label, one word for each destination. Conditions are equations joined by `or`, evaluated from the left
as Python does; this is the form of the documentation (`cross_comb.rst` 20).

`Covers` says what a coverpoint means, by itself; it keeps its own account of the variables, without
`scope`. `CrossTested` has three parts. `WindowsCover` is about coverpoints whose names are
their own (`SelfContained`), since the code does not make sure that a listed instruction has the operands
named; `NeverStuck` about those whose conditions every choice can meet (`Solvable`): registers are picked
item by item and never taken back, so that in `[add : addi] :: [a=rs1 : ?] :: [? : rd==a]` the choice `rs1` = `x0` ends
the worker's chunk. `RegionsOwn` leaves out windows that write a register pair: `swreg` does not know the other half.

`CombFiles` puts the two combinations of a covergroup one after the other, as `create_test` does: when the first
raises, the second is never reached. Left out: immediates, ISA strings, and floating-point instructions with the
register that initialises them. The file is not executed, as it does not assemble (section 5).

### `DspData`: SIMD and register-pair operands

One instruction of the list `gen_inst` returns, from its elements to the moment it executes.
`elm` are its element variables (`rs1_h0_val`, ...; `simd_val_vars`), known by operand, size letter and
number; a look-up under another letter misses (`Has`). `concat_simd_data` and `gen_pair_reg_data` pack
one operand per step, with the width the code uses for it (`rd` has that of `rs1` in the
one, that of `rs2` in the other); a missing element is a `KeyError`, a step that is not there
(deadlock is checked), except for `rd` in `concat_simd_data`. `Load` is one `LI` of the macro, in the order
of the macro, with the high halves on RV32.

Left out: the format of the numbers, immediates, and `rs1_val64`, which only comments use.

### `TrapSetup`, `TrapHandler`: the trap handler

`TrapSetup` is what `RVTEST_CODE_BEGIN` and `RVTEST_CODE_END` put around a test: the prolog of each mode
(`SaveCsrs`, `InitTvec`, `CopyTrampoline`) and the epilogs in the opposite order (`Epilog`). `phase` and `cur` say
which part of which mode is being executed; the other variables are CSRs, the save areas, and
the words at the place a fixed trap vector points to. A vector can be writable, fixed, or fixed
to 0 (`kind`), and of the words it points to a prefix of any length can be written (`room`).

`TrapHandler` is what happens in between, with one `RVTEST_TRAP_HANDLER` for M mode and one for S mode.
`pc[m]` is the place in the handler of mode `m`, `regs` the seven registers it uses, `svr` the copies in the save
areas, `ptr` the signature pointer in M mode's area, `mem` the words the handlers stored.

| action | code |
|---|---|
| `Exception`, `Interrupt`, `GotoMmode`, `GotoLower`, `Configure`, `CodeEnd` | what a test may do, or what happens to it: external, but for the macros |
| `Swap`, `Stash`, `Unswap`, `Temps` | from the vector to `common_xentry`: registers to the area by way of `xscratch`; the ecall with `x2 = 0`; the size of the entry |
| `ReadPtr`, `WritePtr` | `trapsig_ptr` is read, and written back |
| `SaveVect`, `SaveCause`, `SaveEpc`, `SaveTval`, `SaveIp`, `SaveIntId` | the words of the entry, one at a time |
| `Overrun` | `chk_xtrapsig_overrun` |
| `Dispatch` | the tables of clear routines |
| `Resto`, `Rtn2mmode`, `Cleanup`, `CleanupInS`, `Abort` | the ways out |

An action is a group of instructions that touch one shared thing; M mode's handler runs without
interruption, and S mode's can be interrupted between any two actions. `torn` records
that this happened between `ReadPtr` and `WritePtr`; `log`, `stored`, `before` and `taken` are for the properties and
the bound. An address in a trap is in a segment that the handler knows, or not; the arithmetic that relocates
it is left out, and so are the values of the words (a word is known by entry and position). Interrupts
do not arrive in prolog and epilog: a hart starts with interrupts off, and takes the trap that
leads to the epilog, which turns them off. Section 8 says what is missing for V mode.

### `InsnEncoding`, `CsrEncoding`, `Encoding`: the tables

A row `MATCH_x`, `MASK_x` is a partial function from fields of an instruction word to values, with a domain that the mask
gives. It is written down by family (`R(o, f3, f7)` is the mask `0xfe00707f`), 262 rows in all. `CsrEncoding` has
the addresses, causes, interrupt numbers and the names that `XCSR_RENAME` gives the CSRs of a handler.
`Encoding` uses them: `Assemble` writes a word for a row, with operands that agree with the fixed fields of another row
wherever these two do not exclude each other (the operands most likely to be taken for the other), `Look` finds the
rows that match, `NameCsr` and `NameByRole` name CSRs.

### `Build`: the incremental build

`bin` and `sail` are the files of the two build trees the script tests for or
makes; `simOf` is the version of the sources in the simulator. Each
command of `build.sh` is an action, with a second action for its failure
(`set -e`). `make` produces its targets one by one in any order (`-j`). `Interrupt`
may leave a partly removed tree. `cmake` writes `Makefile` only if it
succeeds, but `CMakeCache.txt` perhaps also if it fails, which is how cmake behaves. `fault`
records that a tool failed by no fault of the script, so that properties can ask
whether the *script* has a way out.

### `InstrMenus`, `MCRegAlloc`, `MCSigLayout`, `MCSigFormats`, `MCRunSuite`, `MCCtgPool`, `MCGenInst`, `MCCsrComb`, `MCDspData`, `MCTrapHandler`

`MCSigLayout` checks the passes and the layout together, since the passes are
steps of `SigLayout`; no instruction of `p.yaml`, `template.yaml` or `inx.yaml`
has both register pairs and a `val` section, so `pairs` and `values` are separate
runs. A file of a format without a `val` section has no `RVTEST_VALBASEUPD`: the
specification `NoValSpec` of `MCSigLayout`, which `pairs` and `layout_stride` check, has
every step of `LayoutNext` but `RunValbase`. `MCSigFormats`, for the run `values`, has
two formats: `fadd.s`, with the constants of the cfg and all steps, and `kadd64` on RV64,
an instance of `SigLayout` with the constants of that format. The invariants
read the constants of `fadd.s`; the only one that matters to `kadd64`, `Words` in
`ResultsSaved`, is 2 in both.
`InstrMenus` has the lists of instructions used for checking. A menu fixes three to five
instructions over the register file of the E base ISA (`x1..x15`), with shared
registers, `x0` as an operand, pairs and non-pairs; the programs are *all* lists
over the menu up to length `MaxInstrs`. `MCRunSuite` fixes suites with tests of
the same name on two pages. `MCCtgPool` has a covergroup of each kind, with all
the ways to fail, in CGFs of three to six. `MCGenInst` has small covergroups over `x0`..`x3` and `f0`.
`MCCsrComb` has eleven cross coverpoints of one to three items, and prints expressions over seven clauses, with the brackets Python needs and with more,
and adds texts that are no expressions; its lists have none, one or two coverpoints. `MCDspData` has the formats of `p.yaml`, with bytes of two bits.
`MCTrapHandler` has handlers in M and S mode and a trap signature of seven words. `Encoding` needs none: the tables are finite.

### Faulty variants

Operators whose name ends in `Faulty` (and `RegionLonger`) are not part of the
specification. Each precedes a definition and has a plausible mistake of it (a
forgotten high half, a threshold off by one, a label from before the increment).
They document what each property is sensitive to: with the definition replaced
by the variant, TLC finds the property violated.

## 4. Runs

| run | shows | bounds |
|---|---|---|
| `pairs` | instructions whose `rd` is a pair, from allocation to execution: pointers free of operands and high halves (`SwregFree`), offsets without gaps and below the limit (`OffsetsRun`), every instruction served (`Completes`) and in one file (`FilesPartition`), every word of every result in a signature of exactly the right length (`SignatureExact`) | all lists up to 5 of 5 instructions, without `--inst` and with `--inst 2` |
| `values` | two formats without pairs. `fadd.s`: instructions that load their operands, all three passes, flag register: `TestregFree`, `ValregFree`, `PoolSuffices`, `ResultsSaved`, `LoadsOwnOperands`; the macro uses the assembler's running offset, and its word is half the size the generator computes with. `kadd64` on RV64: explicit offsets, two words stored per stride of three; the second word of the last instance of a full region is one beyond the reach of a store, and `CHK_OFFSET` moves the pointer for it (`ResultsSaved`) | for each, all lists up to 5 of 5 instructions |
| `regalloc_testreg` | `TestregFree` fails with pairs | as `pairs` |
| `layout_stride` | `ResultsSaved` fails with the stride of `p.yaml` | lists up to 5 of 4 three-pair instructions |
| `suite` | rows say what happened in this run (`RowsTrue`), a full pass was a full pass (`FullPassIsFull`), files kept under a test's name are its own (`KeptIsOwn`), a test that passed has the signature of this run (`PassedSigned`), a run ends although the simulator hangs (`RunEnds`), refinement of `SuiteOrder` (`Promise`) | 2 tests of one name on two pages, `LIMIT` 0 and 1, 2 runs |
| `build_pass` | ok means a linker, an assembler and a current simulator (`OkMeansBuilt`); `--fresh` recovers from every state and needs no second attempt unless a tool fails (`FreshRecovers`) | any number of runs, 2 source changes |
| `ctg` | a covergroup loses tests only to a failure in its own chunk (`FaultsContained`); the driver ends unless a worker exits (`Ends`) | 1 and 2 workers, 3 CGFs of 5 or 6 covergroups, with and without a filter, 2 runs |
| `combine` | all registers to cover are in final instructions unless `opcomb` warns (`OperandsCovered`); rich conditions (`CombCovered`) and all solvable values (`ValuesCovered`) are covered; registers can hold their values (`ValuesConsistent`); an end (`Finishes`) | 2 operands: all pairs of 7 lists of registers, 3 lists of conditions; 3 operands: 4 covergroups with conditions that name registers; 5 special ones |
| `csr` | an accepted coverpoint means what the expression means (`ParsedRight`), and expressions are accepted but for those that end in several brackets (`ExpressionsAccepted`); every realisable coverpoint without a negation holds after the writes of some instance (`CovptsCovered`); CSRs are restored (`CsrsRestored`); no word of the signature is overwritten (`ReadsSaved`). Before that, the cross combinations of the covergroup: windows satisfy their coverpoints, no choice leads to a needless failure, signature regions are kept apart (`CrossTested`) | 11 windows over 4 registers and 5 instructions, alone and in pairs; 7 clauses, one of them unknown, on 2 CSRs of 2 bits: all pairs of clauses with `and` and `or`, several hundred expressions of three and four clauses with nested brackets, no coverpoint, and all pairs of different ones out of 12 short coverpoints, 5 of them malformed |
| `simd` | each element is in its place when the instruction executes, unless operands share registers (`LanesArrive`) | 20 formats of `p.yaml`, 12 without and 8 with pairs, four registers for each operand; elements that are all alike but one, with the extreme values |
| `encoding` | of the rows that match a word, one is more specific than all others (`DecodesRight`); no two CSRs share an address, and the high half of a counter has the rights of the low half (`CsrsDistinct`); each CSR a handler names exists and its mode may read and write it (`HandlerCsrsReach`) | none: all rows, all pairs of rows, all CSRs |
| `traps` | entries stay as they were stored, unless a trap hit the update of the pointer (`EntriesKept`); when an exception passes the overrun check, no entry is beyond the signature, unless a trap hit that update (`ReturnsInside`); registers (`RegistersRestored`) and, short of `abort_tests`, CSRs and code (`CsrsRestored`) come back; the hart halts (`Ends`) | M and S mode, vectors of all kinds, trampolines of 2 words, 3 traps, 7 words of signature, 2 causes and 4 interrupts, 2 delegations |

*Why these bounds are enough.* With 15 registers and up to six registers per
instruction a pool reaches its threshold after two or three instructions, so
five instructions see full windows of different lengths, windows closed by the
last instruction, and leftovers, in each pass independently. With 31 registers
the same code takes lists four times as long. `OffsetLimit` is 15 or 31 bytes
instead of 2047, so that offsets wrap within a list; nothing else depends on it. For
`kadd64` it is 55: a store reaches 7 words of 8 bytes then, and 256 with the real limit, both one more than a
multiple of its stride, so that the last offset of a region is the last one that a store reaches,
and the second word there is the first one beyond.
`--inst 2` gives lists it divides and lists it does not. What remains above
the bounds is the subject of the proofs (section 6).

Two runs of the suite are enough for a leftover of one to reach the next, and two tests
for a leftover of a test to reach the next test; interruptions and failures are
possible at every command. The build is a finite-state system but for the
versions, of which only equality with the current one matters.

Three registers and three pending ones per operand are enough for a condition
to be excluded by what other conditions used up, and for lists that run out at
different times; with two registers three operands cannot be different.

A decision of the parser looks at one token, the top of the operator stack and the depths of
the current clause, so that every decision is taken in some expression of four clauses with nested
brackets. Two bits tell a field from a register, and two CSRs tell whether the register with a
modifier comes last.

With 6 tasks, one worker gets chunks of two and two workers chunks of one, so a
failure has something in its chunk to lose.

Three traps are enough for one to interrupt the handler of another and for a third to be delegated, return to M mode or
overflow the signature of seven words, which an entry of three and one of four fill exactly. Two words of
trampoline tell none, some and all of it apart.

*Deadlock* is checked for `Build`, which can always be started again, and for `CombFiles` and
`DspData`, in which `Stopped` (and `Ended`, for an exception) marks the end of a test as the only state where nothing more happens. It is not
checked elsewhere: the generator really stops, and so do runner and driver
after `MaxRuns` runs; a hart halts.

*Fairness.* `LayoutSpec` (and with it `NoValSpec`) assumes weak fairness of the next-state
relation as a whole: the generator and a test are sequential programs, and a
program that can take a step is eventually scheduled. No fairness is assumed
between alternatives. `RunSuite` assumes weak fairness of `Proceed`: the shell
goes on to the next command, and `timeout` kills a hanging simulator; that a new run is
started, or a run interrupted, is not assumed. `CtgPool` assumes that the operating
system runs every worker (`Work(w)`) and the driver (`Return`). `GenInst` assumes weak
fairness of its next-state relation, as `SigLayout` does. `TrapHandler` assumes it of `Setup`, of the handlers, of
their ways out, and of `CodeEnd`: a hart keeps executing, and the test's own code runs into its end. That a trap occurs is not
assumed.

## 5. Disagreements found

* `regalloc_testreg`: a scratch register can be the high half of a pair of its
  own instruction. `testreg` looks for the high half only inside the branch that
  still finds the low half in the pool; when an earlier instruction of the window
  has taken the low half, the high half stays. The docstring promises a register
  that is no operand, destination or signature register (`generator.py` 1228).
* `layout_stride`: the instructions of profile `ppp` (and `wslli`, `wslai`) have stride 1
  in `p.yaml`, while their macros store two words. The second word of a result
  is overwritten by the next instance. Instructions of profile `pnn` have stride 2.

Others were met, and have no run of their own.

*In the generator.* `gen_inst` does not count the values of an instruction whose sources are one
register, or `x0`. It does count them if `rd` is read and is a source as well, or if `rs2` is the high
half of the pair `rs1` (as in `x2`, `x3` and `x3`), though the macro then loads one over the other; the
repetition with default registers, where there is one, is dropped as adding nothing (`generator.py` 968;
`LanesArrive` is about operands that share no register). `opcomb` pops a condition, and solves it together with
the registers still to cover: if these exclude it the condition is gone, though
other registers satisfy it, and nothing is logged (412), while `overview.rst` 164 speaks of a guarantee. With conditions that are rich (see
`OpComb`), as those of the usual covergroups are, this does not happen. What one failure sets, `individual` and then
`nodiff` (443), holds until the end, so that registers one operand cannot have make the loop give up those of the others;
it warns then, and `OperandsCovered` is about the covergroups without a warning. A size `FLEN` is always taken as 0
(1049), and values do not count with `f0`, but are repeated for `x0` only (969). With `--inst`, a file that starts inside a
signature region has no `RVTEST_SIGBASE` before its first instance (`generator.py` 1471; `ResultsSaved`
is about files that start with a region). A covergroup may have several mnemonics, says
`pseudo_op_support.rst` 45, but each writes its tests to `<label>-NN.S`, over those of the one before
(`ctg.py` 42; `FaultsContained` asks for those of the last). A mnemonic without a template is "not found in
template file. Skipping", but the function returns: the mnemonics after it and the combinations of the covergroup are
dropped too (`ctg.py` 82; `FaultsContained` is about chunks without such a covergroup). `pbrdrrformat` has elements `rd_h*` for
`pm4adda.b`, `pm4addau.b` and `pm4addasu.b`, whose attributes define `rd_b*` and whose `bit_width` is 8: the
accumulator is always 0 (`generator.py` 199, `dsp_function.py` 158); and on RV64 the halves of a pair are
cut to 32 bits (`dsp_function.py` 226), which concerns `amocas.q` and the older `*64` instructions of
`template.yaml`. The formats of the run `simd` leave these out.

*In the trap handler* (lines of `arch_test.h`). The update of the signature pointer "should be atomic" (1227) and is
not: after an M-mode trap in between, two entries share words. The end of the signature is checked for exceptions only,
and after their words are stored (1498); so an interrupt may write beyond it, also one that M mode takes between the check of
an S-mode exception and its return (`ReturnsInside` says what holds at the check). The interrupt table of M and S mode is chosen with `#elseif rvtest_dtrap_routine`
(1593; no directive of the preprocessor, and a name nothing defines), so that the table for M mode alone is used and S-mode interrupts abort the
test; its odd entry 1, meant to "just return", is compared with the cause and aborts. Timer interrupts of M mode
reserve four words where the comment (1145) has three, and an M-mode exception reserves six with `misa.H` set, of which it may
store four. `abort_tests` writes its marker in front of `rvtest_sig_begin` (1967; on RV64 over the first word as well), not at
the end as its comment says, and passes over the epilogs. With a trap vector of 0 the epilog writes a word to
address 0, as its loop tests its bound late (1802). `RVTEST_GOTO_LOWER_MODE` "uses T4 only" (819) but changes `T1` and `sp`, and asks for an
undefined `Vmode` (874). `model_test.h` 48 defines `RVMODEL_CLEAR_MSW_INT` and the like, but `arch_test.h` 907 looks for
`RVMODEL_CLR_MSW_INT`, so that every interrupt ends a test of this target. A handler of S mode reaches the epilogs, and with a
delegated ecall `rtn2mmode`, in S mode, and the test ends properly only because the first CSR there traps to M mode.

*In the tables.* `_XCSR_RENAME_V` needs eight CSR names that `encoding.h` does not have; five others (`CSR_VSATP`, `CSR_HEDELEG`,
`CSR_SEDELEG`, `CSR_MENTROPY`, `CSR_MNOISE`) are not declared to users of `DECLARE_CSR`; and `c_jalr` is declared before `c_ebreak`,
so that a reader who takes the first row that matches never sees a `c_ebreak`.

The tests of the recorded baseline are generated without `--inst`. Some limits of the
code are not counted as disagreements but as preconditions of properties: with
`--inst` larger than the number of instances no file is written at all
(`generator.py` 1380; `FilesPartition` asks for enough instances), and the
signature of a test that does *not* pass stays in `OUT` from an earlier run
(`run_suite.sh` 31; `PassedSigned` is about tests that pass); binutils counts
as built once `as-new` and `ld-new` exist, though `make` may have stopped
before `objdump` (`build.sh` 24; `OkMeansBuilt` leaves `objdump` to
`FreshRecovers`); and a configuration that left `CMakeCache.txt` when it failed is
not repeated, with `ASIO_SRC` or without, except with `--fresh`; a covergroup with `base_op`
and without a template raises an `UnboundLocalError`, as the warning of `ctg.py` 93 names a variable
of the other branch (`FaultsContained` counts it as a failure of the covergroup).

So it is with CSR coverpoints: an expression that ends in two or more brackets is rejected, since
the loop of the parser ends with the last clause and takes the outer opening brackets for operators
(`csr_comb.py` 158); only the clauses to be true are used of a solution, so that `not` asks for
nothing (288), and `or` under a `not` is solved clause by clause (76-94); a plain clause is ignored
beside a `write()` of the same register (349); `old()` alone is never followed by the write
that would show it; and the signature has one word reserved for each instance, while an instance
stores one for each CSR it names (384; the second part of `ReadsSaved` is for coverpoints that name one).

*In cross combinations* (lines of `cross_comb.py`). An item that lists instructions ignores which operands its
condition and assignments name (318): if the one picked lacks one, the value of an earlier instruction is used, or
the name is not set. An unknown name is logged, and the instruction picked last used in its place (330). `swreg` (402) does not know the other halves
of register pairs, and takes the pointer out of the candidates for `freg` by its characters (412), which is harmless, since
`freg` is used after the pointer. `write_test` leaves `$sz` in the `.fill` directive (497), passes the
offset to `RVTEST_SIGUPD_F` where the flag register belongs (504), and `kformat` and `prrformat` print no operands (34, 53): the file
does not assemble.

## 6. Proofs

`SigLayoutProofs` begins with register allocation. It proves for every `Regs`, format, set of pairs, list of
instructions and stride (assumptions `OperandAssumption`, `RegsAssumption`,
`StrideAssumption` of `RegAlloc`):

| theorem | statement |
|---|---|
| `TypeCorrect` | `Spec => []TypeOK` |
| `SignaturePointerFree` | `Spec => []SwregFree` |
| `ScratchAvoidsOperands` | `Spec => []TestregAvoids` |
| `DataPointerFree` | `Spec => []ValregFree` |
| `PoolNeverEmpty` | `Spec => []PoolSuffices` |
| `ScratchFree` | `Paired = {} => (Spec => []TestregFree)` |
| `LayoutRuns` | `Spec => []OffsetsRun` |
| `Invariance` | `Spec => []IInv` |

The assumptions say what the code relies on: operands are among `rs1`, `rs2`,
`rd` and the paired ones among the operands; `Regs` is a finite set of positive
numbers with more members than the larger threshold (15 or 31 against at most 9).

None of the properties is inductive: whether a register handed out at the end
of a window is free for the first instruction of the window depends on what the
pool has lost in between. `IInv` adds `PoolInv`: while a pass runs, its pool
contains no register of the instructions scanned since the last window, and has
more registers than the threshold. The step of a window then has two halves.
*Disjointness*: the register comes from the pool less the registers of the closing
instruction, so it is free for all instructions of the window. *Counting*: an
instruction takes at most one register per operand, per pair and per earlier
pass out of a pool above the threshold, so at least one register (two, for
`valreg`) remains (lemmas `LeftBound`, `TwoLowest`). `TypeOK` is exact about the
domains (a pass has served precisely the first `assigned` instructions), which
is what makes `Without` in the code's skip-if-present test harmless
(lemmas `SwregServed`, `TestregServed`, `ValregServed`).

Note the part about `testreg`: its pool is only known to lack the *low*
registers of the window, so that `TestregAvoids` is a theorem for all formats and
`TestregFree` one for formats without pairs only; with pairs it is false (section 5).

`OffsetInv`, for `OffsetsRun`, is about the offsets of the instructions served so far, and relates
them one to the next: an offset that is not 0 is the one before plus a stride, and every offset
fits. `Wrap` and `ModNext` are the arithmetic of an offset that starts again at 0; where the
size is taken as 0, it never does.

`RunSuiteProofs` proves for all suites whose lists have no test twice, all limits and
any number of runs (`TestAssumption`, `LimitAssumption`; `find` lists no path
twice, and `LIMIT` is a natural number):

| theorem | statement |
|---|---|
| `RowsAreTrue` | `Spec => []RowsTrue` |
| `KeptFilesAreOwn` | `Spec => []KeptIsOwn` |
| `FullPass` | `Spec => []FullPassIsFull` |
| `PassesAreSigned` | `Spec => []PassedSigned` |
| `KeepsPromise` | `Spec => Promise` |
| `Invariance` | `Spec => []IInv` |

None of these follows from its own truth. `IInv` adds `OrderInv` (while a test is
worked on, the number of rows and the position in the suites determine each
other, so the row appended is the one that is due and no test gets two),
`FilesInv` (scratch files are those of the current test, from `rm -f` on) and
`ShownInv` (what is about to be written down is what the tools showed; at
`Judge` this is the argument that the line `SUCCESS` and the exit code tell the
four outcomes apart). `RowsTrue` needs `OrderInv`, since
a second row for a test would make the first one wrong; `FullPassIsFull` then
counts: as many passing rows as tests, in the order of the tests, is every test.
`PassedSigned` has an invariant of its own: `RunFiles` (scratch files are of this run), `SigSeen` (a
success has left a signature that is not empty, from the simulator to the last file kept) and `SigRows` (the
tests of earlier rows have theirs, and no later command takes it away: the names of files kept tell tests apart).
The refinement has one step for `Start`, one for `AppendRow`, and a stutter for
each other action.

`GenInstProofs` proves for every set of covergroups (`CgfAssumption`, `ValAssumption`:
the lists are lists of the registers and values there are, an operand reads a variable
of its own, and each variable has a first value):

| theorem | statement |
|---|---|
| `TypeCorrect` | `GenSpec => []TypeOK` |
| `NoRegisterLost` | `GenSpec => []RegistersKept` |
| `RichNotDropped` | `GenSpec => []RichCovered` |
| `EveryOperandCovered` | `GenSpec => []OperandsCovered` |
| `EveryRichCombCovered` | `GenSpec => []CombCovered` |
| `EveryValueCovered` | `GenSpec => []ValuesCovered` |
| `EveryInstrConsistent` | `GenSpec => []ValuesConsistent` |

`RegistersKept` is inductive with the types. `RichCovered` is not: that the next condition
has a solution depends on how much the combinations before it have used up.
`RichInv` says what is left: as long as there was no failure, the pending conditions
are `1..m`, and each has a set of solutions among the pending registers, no two with an operand in
common, with more than `m - 1` times as many members as there are operands to
cover. A combination shares an operand with at most one member per operand (`UsedUp`: the
members it meets map one to one to operands), so there are enough for the others
(`StillEnough`), there is always a solution (`NextSolution`), and no failure comes
before the last condition is covered. This holds whichever solution the solver takes.
The other three follow the coverage through `gen_inst`, one invariant per loop:
`PairedInv` (each combination of operands is in an instruction), `ValInv` (`valcomb`
leaves no condition it can solve), `ShownInv` (the values are in an instruction that
counts, or wait to be repeated; `DefaultInv` makes the repeated ones count) and
`FilterInv` (what an instruction covers is covered by the ones kept).
`ConsistentInv` is `ValuesConsistent` for the instructions that the filter drops, too.

`TrapHandlerProofs` proves for one or two handlers, any trampoline, signature, XLEN, sets of causes,
interrupts, delegations and values of registers, and any number of traps (`SetupAssumption`, `HandlerAssumption`; of these,
that the test does not delegate illegal instructions and that its `sp` is not 0 are what `arch_test.h` 804 and 1174 ask of tests):

| theorem | statement |
|---|---|
| `Invariance` | `Spec => []IInv` |
| `EntriesAreKept` | `Spec => []EntriesKept` |
| `ReturnsStayInside` | `Spec => ReturnsInside` |
| `RegistersAreRestored` | `Spec => RegistersRestored` |
| `CsrsAreRestored` | `Spec => []CsrsRestored` |

`IInv` has, next to the types, three parts. `SetupInv` says of each mode that it is `Untouched`, or that its CSRs and code are
`Saved`; in prolog and epilog the modes change from the one to the other one by one, and a prolog that gives up jumps to the epilog of a
mode that is saved. A word of the trampoline is either still the old one or in the save area, whatever the length of the copy.
`RegInv` says where the registers of the interrupted code are at each step of a handler (in the registers, in `xscratch` and in
the area together), for the interrupted S-mode handler with the registers that the M-mode handler will return (`Own`).
`SigInv` holds as long as `torn` is false: `LogInv` (entries follow one another, end at the pointer and hold what was stored) and
`EntryInv` (a handler is at the end of what is stored of its own entry, and the one that has read the pointer holds its value).
Each part has a lemma per group of actions; a handler of one mode does not disturb the other's part.

`BuildProofs` proves for any number of source changes, with and without interruptions (`BuildAssumption`):

| theorem | statement |
|---|---|
| `OkIsBuilt` | `Spec => []OkMeansBuilt` |
| `FreshDoesRecover` | `Spec => []FreshRecovers` |
| `Invariance` | `Spec => []IInv` |

The script decides by the files that exist, so that what a run knows of the trees is what its own steps have made sure of:
`StepsInv` says this for each step. Only `--fresh` knows what it starts from: trees that its own
`rm -rf` has emptied. In particular a build that is not fresh never knows whether `objdump` is there.

The second part of `SigLayoutProofs` proves for every list of instructions that the passes have served, every `--inst`, stride, size of words
and way of passing the offset (`LayoutAssumption` and the assumptions of `RegAlloc`; a store reaches more words than one instance has):

| theorem | statement |
|---|---|
| `EveryFileCounts` | `LayoutSpec => []FilesPartition` |
| `NothingIsLost` | `Sized => (LayoutSpec => []ResultsSaved)` |
| `SignaturesAreExact` | `Exact => (LayoutSpec => []SignatureExact)` |
| `OperandsAreOwn` | `Insts = {0} /\ ValStride = Sources => (LayoutSpec => []LoadsOwnOperands)` |

`Sized` says that the stride is the number of words the macro stores or, with explicit offsets, at least that number,
in words no larger than the size the generator computes with. It is what the file has to get from `p.yaml`, and what the run
`layout_stride` lacks. `Exact` has no unused words either, which would keep their fill value. With an implicit offset the sizes do not matter,
and `StrideSz` may be 0. An explicit offset is at most `OffsetWords`, and the lemma `Encodes` shows that from there
`CHK_OFFSET` brings all words of an instance within reach; `NoExcess` shows that it moves the pointer in
the last instance of a region at most, and so for no instance that follows. With the running offset it may move it anywhere,
and the sum of pointer and offset stays (`SigNext`). `ValStride = Sources` is the same for the data section; `Insts = {0}` excludes slices, whose files
begin in the middle of a dataset. `LayoutIInv` follows the three descriptions of a file that have to agree.
`FilesInv`: the files so far have a prefix of the list, each instruction once (`Cover`). `FileInv`, while a
file is written: its code has for each instance a `RVTEST_VALBASEUPD` and a `RVTEST_SIGBASE` where it needs them and a test
(`CodeInv`); the region of an instance begins `Stride` words per earlier instance into the signature, and no label
names two regions (`SignInv`); data words belong to the instance at their place (`Owned`). `RunInv`, while a file runs:
before its test, pointer and offset of instance `t` add up to word `Stride * (t - 1)` (`SigSet`), whether the
offset is the generator's or the assembler's, and the signature has the results of the instances before it, without a hole if the stride has none
(`Stored`). That a pointer survives until then is `SwregFree`, `TestregAvoids` and
`ValregFree`, taken from the invariant of `RegAlloc`; this is where register allocation and layout meet.

`CtgPoolProofs` proves for all covergroups, filters and numbers of processes, and any number of runs (`CgfAssumption`:
the labels of a CGF differ; `ProcsAssumption`):

| theorem | statement |
|---|---|
| `FaultsAreContained` | `Spec => []FaultsContained` |
| `Invariance` | `Spec => []PoolIInv` |

`PoolIInv` accounts for each chunk: it is in the queue (`QueueInv`), in the job of one worker (`JobInv`), worked off,
or lost with a worker that exited, and `left` counts all but those worked off (`LeftInv`). So the driver only goes on
when no chunk is missing, and then the tasks of a chunk without failures
are in a job or have their files (`TaskInv`). `ProgressInv` says which files the first task of a job has written at each part of `create_test`,
and that no other task writes over them, as labels differ. The arithmetic of `starmap`'s chunks is proved too: they share out the
tasks, each once (`MultiplesApart`, `SizePositive`).

`CombProofs` proves for all templates, coverpoints, clauses and registers (`TemplateAssumption`, `WindowAssumption`, `ClauseAssumption`,
`CovptAssumption`, `ResetAssumption`, `CovergroupsAssumption`: operands have registers, items are of the form the documentation gives, clauses are
about fields of the CSRs, lists do not repeat a coverpoint):

| theorem | statement |
|---|---|
| `CrossCombsTested` | `VariablesOnly => (CombSpec => []CrossTested)` |
| `CsrsAreRestored` | `CombSpec => []CsrsRestored` |
| `ReadsAreSaved` | `CombSpec => []ReadsSaved` |

`VariablesOnly` says that coverpoints assign to variables, as all those of `cross_comb.rst` do, and not to operands or registers: an
assignment to `x1` would change what `x1` is for the rest of the call. `CrossIInv` relates the one scope of the code to the meaning of a
coverpoint: the scope *agrees* (`ScopeInv`) with the names the coverpoint has by itself, and may have more, which a self-contained
coverpoint does not read. `OriginInv` says that a variable holds a register of some operand it was assigned from, which is why the solver
does not fail (`NeverStuck`). `LabelInv`: the number in a label counts the regions of its pointer.

`CsrIInv` has the stacks of the parser hold expressions over the clauses of the coverpoint, so that a solution names
no other CSRs (`ParseTypeOK`); instances share out the words of the signature one after the other (`InstInv`); and where an instance writes one CSR
twice, the register of the *first* write that is not restored yet keeps the initial value (`SavedInv`). The writes not restored are a stack,
since the restores come in the opposite order; were they in the same order, the CSR would end with the value in between.

`ParseProofs` proves for all clauses and coverpoints (the assumptions of `CombProofs`), of any length and depth:

| theorem | statement |
|---|---|
| `ExpressionsUnderstood` | `CombSpec => [](phase = "solve" /\ IsExpression(...) => bool_expr.holds = Covpt[...].holds)` |
| `CovptsParsedRight` | all coverpoints are expressions `=> (CombSpec => []ParsedRight)` |
| `ExpressionsAreAccepted` | each coverpoint is an expression or has no meaning `=> (CombSpec => []ExpressionsAccepted)` |
| `SmallestAreTested` | `CombSpec => []SmallestCovered` |
| `CovptsAreCovered` | `(\A p \in DOMAIN Covpt : HasSmallest(p)) => (CombSpec => []CovptsCovered)` |

The hypotheses are about the coverpoints that are given: `IsExpression` says that what `holds` claims a text to mean is its meaning in
Python, without which there is nothing to compare with. Every text that can be written satisfies it with the meaning it has (lemma `GrammarCloses`);
the coverpoints of `MCCsrComb` are built by the same operators.

A *form* is an expression in which some parts are replaced by their values; forms have a grammar of their own (`Forms`), with values in place of clauses.
The argument has three levels. *Grammar*: a redex (an operator between values, or brackets around one, with no neighbour that
binds closer) can be replaced in a form by its value, and what results is a form with the same meaning (lemma `FormsReduce`, by cases
on how the form was built and where the redex lies in it). *Tokens*: a coverpoint is a form of clauses spelled out (`GrammarSpelled`); the brackets in a clause
never go below the depth of its `==`, and those around it never above, which is how the parser can tell them apart (`Place`,
`ClauseTokens`). *Stacks*: `Progress` says that the items read so far are on the stacks (`Stacked`: a history of pushes that spells
a form, which the items still to be read complete) and that the phase, the position and the current clause are those of an item. Each action either moves to the next item
or replaces a redex that lies at the top of the stacks; that its neighbours do not bind closer is what `OP_PRIORITY`
and the order of the stack guarantee. When all is read and reduced, the form is a single value, the meaning.

After the last clause the loop ends although brackets may be left. `Stranded` counts: with two or more of them, the opening brackets on
the stack are taken for operators, which use up all values before the stack is empty, so that the coverpoint is
rejected and not misunderstood. `Refused` says that an expression is only rejected in this case.

`SmallestCovered` says what a test covers, coverpoint by coverpoint and without a hypothesis: if an accepted expression without a negation is made true
by a realisable set of clauses, and by no part of that set (`Smallest`), it has held after some write. Its invariant follows one such set
through all stages, most of them in `CombProofs`. `SolvedStacks`: each expression on the stack of the parser is *solved* (`Solves`): for
every set that makes it true, one of the solutions of `SAT()` asks for no more than this set, and is enough. `AndExpression` and `OrExpression` keep this
(`AndSolves`, `OrSolves`: to a solution of one side of a disjunction, `SAT()` adds the clauses that the other side wants to be false; each
side has a solution without such clauses, and with it nothing is added). `ServedInv`: each of these solutions becomes an instance. `WrittenInv`: before a write, the fields of the
earlier writes of the instance are in force, but for a CSR that is written again. `HitInv`: when the last write of
an instance has been executed, all its clauses are true at once and each coverpoint that they make true is hit. The last of these steps needs the
order of the writes (`ClauseWritten`, `Realised`): the CSR with a modifier comes last, and of its two writes the one of the
old value first. So it is the last write that overwrites the old value, and the other CSRs have their fields by then.

`CovptsCovered`, which asks this of any realisable set, follows where each realisable coverpoint has a smallest one (`HasSmallest`). It is more than the code
promises in general: `(old(mstatus) and misa) or old(misa)` is made true by realisable sets such as {`old(misa)`, `misa`}, of which the first clause would be
enough but cannot be had by itself; whether it holds after a write of its instances depends on `Reset`. Of the coverpoints
without a negation that `MCCsrComb` has, 405 of the 445 realisable ones have a smallest set; TLC finds the others covered with the CSRs they start with.

## 7. Model-checked only

* *Liveness*: `Completes`, `RunEnds`, `Finishes`, and `Ends` of `CtgPool` and `TrapHandler`. It is outside the prover's reach.
* *Tables*: `DecodesRight`, `CsrsDistinct` and `HandlerCsrsReach` are about the rows there are. They have no parameters; TLC looks at all of them,
  which is complete.
* *What a recursive definition computes*: `LanesArrive` (`DspData` uses a recursive operator).
* `CovptsCovered` *for coverpoints whose realisable sets of clauses all have a superfluous clause* (see `CovptsAreCovered`).

Induction theorems that take an operator as parameter cannot be used with the installed provers. Where a proof needs induction
over numbers (recursive functions such as `NamesAfter` or `Macros`, counts, sequences), it takes the least counterexample
(`LeastOf`, and `UpTo` for a set of numbers, which rest on the well-foundedness of the natural numbers). Induction over the grammar of
expressions is the definition of `Grammar` and `Forms` as least sets.

## 8. Not modelled

* *Sail model, binutils, rvp-test-suite*: git submodules without sources here.
* *`multiprocessing.Pool`*: external, see `CtgPool`.
* *gcc, as, ld, make, cmake and the simulator*: external. `RunSuite` and `Build` let
  them succeed or fail, and leave files, as the scripts expect.
* *Two runs of the suite at a time*: the scripts are not documented for it.
* *`verify_insn.sh`, `regen_tests.sh`, `setup_ctg_venv.sh`*: straight-line scripts in a
  temporary or fresh directory.
* *Model-specific macros, linker script, datasets, helpers, recorded results*:
  no state, or data.
* *Trap handling in V mode*: it does not assemble with this `encoding.h` (section 5). The three-mode tables, `mtval2` and `mtinst`,
  and the entries of six words that go with `misa.H`, are left out with it.
* *Inside the handlers*: the relocation of addresses by segments, `mstatus` and `MPRV`, exceptions of a
  handler itself other than the jump to the epilogs, and two trap vectors fixed to the same place.
* *Cross combinations with floating-point instructions*, and the execution of their file, which does not assemble.
