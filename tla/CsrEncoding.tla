-------------------------- MODULE CsrEncoding --------------------------
(***************************************************************************)
(* The CSR addresses, trap causes and interrupt numbers of                 *)
(* src/env/arch-test/encoding.h, and the names arch_test.h gives to the    *)
(* CSRs of the mode a handler is instantiated for.  A CSR is named by its  *)
(* text, its number in a bank (0 outside banks) and whether it is the high *)
(* half of a counter.                                                      *)
(***************************************************************************)
EXTENDS Integers, TLC

Plain ==
  [fflags |-> 1, frm |-> 2, fcsr |-> 3,
   sstatus |-> 256, sedeleg |-> 258, sie |-> 260, stvec |-> 261, scounteren |-> 262,
   sscratch |-> 320, sepc |-> 321, scause |-> 322, stval |-> 323, sip |-> 324, satp |-> 384,
   vsatp |-> 640, hstatus |-> 1536, hedeleg |-> 1538,
   mstatus |-> 768, misa |-> 769, medeleg |-> 770, mideleg |-> 771, mie |-> 772,
   mtvec |-> 773, mcounteren |-> 774, mstatush |-> 784,
   mscratch |-> 832, mepc |-> 833, mcause |-> 834, mtval |-> 835, mip |-> 836,
   tselect |-> 1952, mnoise |-> 1961, dcsr |-> 1968, dpc |-> 1969, dscratch |-> 1970,
   mvendorid |-> 3857, marchid |-> 3858, mimpid |-> 3859, mhartid |-> 3860, mentropy |-> 3861]

(* Counters that have a high half on RV32, and the banks of numbered CSRs: *)
(* first number, last number, address of the number 0.                     *)
Counters == [cycle |-> 3072, time |-> 3073, instret |-> 3074, mcycle |-> 2816, minstret |-> 2818]
Banks == [hpmcounter |-> <<3, 31, 3072>>, mhpmcounter |-> <<3, 31, 2816>>,
          mhpmevent |-> <<3, 31, 800>>, pmpcfg |-> <<0, 3, 928>>,
          pmpaddr |-> <<0, 15, 944>>, tdata |-> <<1, 3, 1952>>]
HighHalf == 128

Csr(n, i, h, a) == [name |-> n, num |-> i, high |-> h, addr |-> a]
BankFaulty(n) == { Csr(n, i, FALSE, Banks[n][3] + i - 1) : i \in Banks[n][1] .. Banks[n][2] }
Bank(n) == { Csr(n, i, FALSE, Banks[n][3] + i) : i \in Banks[n][1] .. Banks[n][2] }
CounterCsrs ==
  { Csr(n, 0, FALSE, Counters[n]) : n \in DOMAIN Counters }
    \cup Bank("hpmcounter") \cup Bank("mhpmcounter")
Csrs ==
  { Csr(n, 0, FALSE, Plain[n]) : n \in DOMAIN Plain }
    \cup CounterCsrs
    \cup { [c EXCEPT !.high = TRUE, !.addr = @ + HighHalf] : c \in CounterCsrs }
    \cup UNION { Bank(n) : n \in {"mhpmevent", "pmpcfg", "pmpaddr", "tdata"} }

Cause ==
  [misaligned_fetch |-> 0, fetch_access |-> 1, illegal_instruction |-> 2, breakpoint |-> 3,
   misaligned_load |-> 4, load_access |-> 5, misaligned_store |-> 6, store_access |-> 7,
   user_ecall |-> 8, supervisor_ecall |-> 9, hypervisor_ecall |-> 10, machine_ecall |-> 11,
   fetch_page_fault |-> 12, load_page_fault |-> 13, store_page_fault |-> 15]

Irq == [s_soft |-> 1, h_soft |-> 2, m_soft |-> 3, s_timer |-> 5, h_timer |-> 6,
        m_timer |-> 7, s_ext |-> 9, h_ext |-> 10, m_ext |-> 11, cop |-> 12, host |-> 13]

(* Which modes may use an address and how is coded in the address.         *)
LowestMode(a) == (a \div 256) % 4
ReadOnly(a) == a \div 1024 = 3
Prv == [u |-> 0, s |-> 1, h |-> 2, m |-> 3]

(* The names a handler is written with, in M and in S mode.  _XCSR_RENAME  *)
(* _V is left out: it needs vsstatus, hie, hip, vscause, vsepc, vsscratch, *)
(* vstval and vstvec, of which the header defines none.                    *)
RenameM == [xstatus |-> "mstatus", xedeleg |-> "medeleg", xie |-> "mie", xip |-> "mip",
            xcause |-> "mcause", xepc |-> "mepc", xsatp |-> "satp", xscratch |-> "mscratch",
            xtval |-> "mtval", xtvec |-> "mtvec"]
RenameSFaulty ==
  [xstatus |-> "sstatus", xedeleg |-> "sedeleg", xie |-> "sie", xip |-> "sip",
   xcause |-> "scause", xepc |-> "mepc", xsatp |-> "satp", xscratch |-> "sscratch",
   xtval |-> "stval", xtvec |-> "stvec"]
RenameS == [xstatus |-> "sstatus", xedeleg |-> "sedeleg", xie |-> "sie", xip |-> "sip",
            xcause |-> "scause", xepc |-> "sepc", xsatp |-> "satp", xscratch |-> "sscratch",
            xtval |-> "stval", xtvec |-> "stvec"]
Rename == [m |-> RenameM, s |-> RenameS]
=============================================================================
