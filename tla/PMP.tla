-------------------------------- MODULE PMP --------------------------------
(* The physical memory protection check, vsrc/util/PMP.sv: one entry, held in *)
(* two CSRs, tells which requests pass.  MemPath models where the check sits *)
(* and what it does to the bus; here is what it decides, against the regions *)
(* the privileged architecture gives the same registers.  Operators only: the *)
(* check is combinational.                                                   *)
EXTENDS Integers

CONSTANTS EntryAddrs,    \* values of pmpaddr0, in units of 4 bytes
          Addrs          \* request addresses, in bytes

ASSUME AddrAssumption == EntryAddrs \subseteq Nat /\ Addrs \subseteq Nat

MatchModes == {"OFF", "TOR", "NA4", "NAPOT"}
Entry == [a : MatchModes, r : BOOLEAN, w : BOOLEAN, l : BOOLEAN, addr : EntryAddrs]

(* The size of a NAPOT region: three sizes are told apart, every other       *)
(* pattern is a page of 4 KB.  Variant for the mutation runs: the 16-byte    *)
(* pattern is forgotten.                                                     *)
SizeNoSixteen(p) == IF p % 2 = 0 THEN 8 ELSE IF p % 8 = 3 THEN 32 ELSE 4096
NapotSize(p) == IF p % 2 = 0 THEN 8
                ELSE IF p % 4 = 1 THEN 16
                ELSE IF p % 8 = 3 THEN 32
                ELSE 4096
Base(e) == CASE e.a = "NAPOT" -> 4 * e.addr - ((4 * e.addr) % NapotSize(e.addr))
             [] e.a = "NA4"   -> 4 * e.addr
             [] OTHER         -> 0
Top(e) == CASE e.a = "NAPOT" -> Base(e) + NapotSize(e.addr)
            [] e.a = "NA4"   -> Base(e) + 4
            [] e.a = "TOR"   -> 4 * e.addr
            [] OTHER         -> 0
Match(e, addr) == e.a # "OFF" /\ Base(e) <= addr /\ addr < Top(e)

PermissionOk(e, req) ==
    Match(e, req.addr) => \/ req.mode = "M" /\ ~e.l
                          \/ IF req.write THEN e.w ELSE e.r

----------------------------------------------------------------------------
(* The reference: a NAPOT address holds the size of its region, the lowest    *)
(* bits are ones and the next one is zero, and the region is the aligned      *)
(* block of that size which the address lies in; NA4 is one word, TOR all     *)
(* below the address.  The sizes are the ones the code tells apart.           *)
Sizes == {8, 16, 32, 4096}
Names(e, size) == e.a = "NAPOT" => e.addr % (size \div 4) = (size \div 8) - 1
Region(e, size) ==
    CASE e.a = "NAPOT" -> {addr \in Addrs : addr \div size = (4 * e.addr) \div size}
      [] e.a = "NA4"   -> {addr \in Addrs : addr \div 4 = e.addr}
      [] e.a = "TOR"   -> {addr \in Addrs : addr < 4 * e.addr}
      [] OTHER         -> {}

(* The rule of the architecture: an entry binds user mode, and machine mode   *)
(* when locked; an access no entry matches is granted to machine mode only.   *)
(* The last part is what test_pmp.sv expects ("Access outside PMP range       *)
(* (should be blocked)", "Machine mode access (should bypass PMP)").          *)
Granted(e, size, req) ==
    IF req.addr \in Region(e, size)
    THEN \/ req.mode = "M" /\ ~e.l
         \/ IF req.write THEN e.w ELSE e.r
    ELSE req.mode = "M"

(* The kinds of request some entry decides wrongly, user accesses outside of  *)
(* its region apart: PMP.sv lets these pass, which is not what Granted says.  *)
Kinds == {<<w, m>> : w \in BOOLEAN, m \in {"U", "M"}}
UserOutside(e, size, req) == req.mode = "U" /\ req.addr \notin Region(e, size)
Requests(k) == {[addr |-> a, write |-> k[1], mode |-> k[2]] : a \in Addrs}
Misjudged ==
    {k \in Kinds : \E e \in Entry, size \in Sizes, req \in Requests(k) :
        /\ Names(e, size) /\ ~UserOutside(e, size, req)
        /\ PermissionOk(e, req) # Granted(e, size, req)}
=============================================================================
