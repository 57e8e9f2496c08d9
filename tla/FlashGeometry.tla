---------------------------- MODULE FlashGeometry ----------------------------
(***************************************************************************)
(* Pages of the serial flash.  A device is PageSize * Pages cells with one *)
(* linear address space (src/dataflash.c, the table in                     *)
(* AT91F_DataflashInit); everything the chip erases or programs, it erases *)
(* or programs a page at a time.                                           *)
(***************************************************************************)
EXTENDS Integers

CONSTANTS PageSize,     \* pDevice->pages_size
          Pages         \* pDevice->pages_number

ASSUME GeometryAssumption ==
    /\ PageSize \in Nat \ {0}
    /\ Pages \in Nat \ {0}

Total == PageSize * Pages
Addrs == 0 .. (Total - 1)
Offsets == 0 .. (PageSize - 1)

\* The start of the page an address is in: page = dest / pages_size, later
\* sent as page * pages_size.
PageBase(addr) == (addr \div PageSize) * PageSize

PageCells(base) == {a \in Addrs : PageBase(a) = base}

\* The addresses a request of size cells at dest names, and all the cells of
\* the pages it falls in.
Target(dest, size) == {a \in Addrs : dest <= a /\ a < dest + size}
Touched(dest, size) ==
    {a \in Addrs : \E x \in Target(dest, size) : PageBase(x) = PageBase(a)}

=============================================================================
