--------------------------- MODULE Encoding ---------------------------
(***************************************************************************)
(* Uses of the tables of encoding.h: an instruction word is written for a  *)
(* row and looked up again, and a CSR is named, by its own name or by one  *)
(* of the names a trap handler is written with.                            *)
(***************************************************************************)
EXTENDS InsnEncoding, CsrEncoding

VARIABLES asm,     \* the row an instruction word was written for
          word,    \* the word: the fields of that row and some of its operands
          hits,    \* the rows that match the word
          csr,     \* a CSR that was named
          handler  \* the mode of the handler that names it, or "test"
vars == <<asm, word, hits, csr, handler>>

NoRow == <<<<>>, <<>>>>
NoCsr == Csr("none", 0, FALSE, 0)
Undefined == Csr("undefined", 0, FALSE, 0)

(* Two rows share a word iff they agree on the fields both of them fix.    *)
Agree(a, b) == \A f \in DOMAIN a \cap DOMAIN b : a[f] = b[f]
(* (word & mask) = match                                                   *)
Matches(row, w) == DOMAIN row \subseteq DOMAIN w /\ Agree(row, w)

Init ==
  /\ asm = NoRow
  /\ word = <<>>
  /\ hits = {}
  /\ csr = NoCsr
  /\ handler = "test"

Fresh == asm = NoRow /\ csr = NoCsr

(* The operands are those that could make the word belong to another row:  *)
(* with two equal rows they are operands no row asks for.                  *)
Assemble ==
  \E r, s \in Insns :
    /\ Fresh
    /\ Agree(r[2], s[2])
    /\ asm' = r
    /\ word' = r[2] @@ s[2]
    /\ UNCHANGED <<hits, csr, handler>>

Look ==
  /\ asm # NoRow
  /\ hits = {}
  /\ hits' = { r \in Insns : Matches(r[2], word) }
  /\ UNCHANGED <<asm, word, csr, handler>>

NameCsr ==
  /\ Fresh
  /\ \E c \in Csrs : csr' = c
  /\ UNCHANGED <<asm, word, hits, handler>>

(* XCSR_RENAME: the assembler finds the CSR of that name, if there is one. *)
NameByRole ==
  \E m \in DOMAIN Rename, x \in DOMAIN RenameM :
    /\ Fresh
    /\ handler' = m
    /\ LET named == { c \in Csrs : c.name = Rename[m][x] }
       IN  csr' \in IF named = {} THEN {Undefined} ELSE named
    /\ UNCHANGED <<asm, word, hits>>

Next == Assemble \/ Look \/ NameCsr \/ NameByRole

Spec == Init /\ [][Next]_vars

-----------------------------------------------------------------------------
(* The rows that exist for one XLEN only (the header has both).            *)
Only == [rv32 |-> {"c_jal", "c_flw", "c_fsw", "c_flwsp", "c_fswsp"},
         rv64 |-> {"c_addiw", "c_ld", "c_sd", "c_ldsp", "c_sdsp"}]

(* An instruction word has one meaning: of the rows that match it and that *)
(* exist for the XLEN, one is more specific than every other, and it is    *)
(* the row the word was written for or an encoding carved out of it (c_jr  *)
(* out of c_mv, c_nop out of c_addi).  The rows are 262 pairs of literals, *)
(* and nothing in the repository compares them.                            *)
DecodesRight ==
  hits # {} => \A other \in DOMAIN Only :
    LET here == { r \in hits : r[1][1] \notin Only[other] }
    IN  asm \in here =>
          \E best \in here : \A r \in here \ {best} :
             DOMAIN r[2] \subseteq DOMAIN best[2] /\ DOMAIN r[2] # DOMAIN best[2]

(* No two CSRs share an address, and the high half of a counter is a       *)
(* different CSR with the rights of its low half: the offset of the halves *)
(* must neither meet the next bank nor change the bits that hold the       *)
(* rights.                                                                 *)
CsrsDistinct ==
  csr # NoCsr =>
    /\ \A c \in Csrs : c.addr = csr.addr => c = csr
    /\ csr.high => \E c \in CounterCsrs :
         /\ c.name = csr.name /\ c.num = csr.num
         /\ LowestMode(c.addr) = LowestMode(csr.addr)
         /\ ReadOnly(c.addr) = ReadOnly(csr.addr)

(* Every CSR a handler names exists, and the handler may use it: it runs   *)
(* in the mode it is made for and writes them, and would otherwise not     *)
(* assemble, or trap inside itself.  arch_test.h chooses the names,        *)
(* encoding.h their addresses.                                             *)
HandlerCsrsReach ==
  handler # "test" =>
    csr # Undefined /\ LowestMode(csr.addr) <= Prv[handler] /\ ~ReadOnly(csr.addr)
=============================================================================
