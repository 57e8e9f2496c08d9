---------------------------- MODULE MCDataFlash -----------------------------
\* Small devices and requests for DataFlash.
EXTENDS DataFlash

CONSTANTS d1, d2, erased, junk

MCData == {d1, d2}

\* Neighbouring bytes of an image and of the chip differ.
Pattern(i) == IF i % 2 = 0 THEN d1 ELSE d2
MCContents == {[a \in Addrs |-> Pattern(a)]}
ImageOf(len) == [i \in 0 .. (len - 1) |-> Pattern(i)]
BlankOf(len) == [i \in 0 .. (len - 1) |-> erased]

\* A head, a full page and a tail; what is read back starts in a page.
WholeStores == {[addr |-> 1, len |-> 4, image |-> ImageOf(4)]}

\* One erased page (erase_flash), a piece inside a page, a head and a full page,
\* a byte too many.  Where chunks are of two bytes, three are read in two chunks,
\* the last one shorter.
PageStores ==
    { [addr |-> 2, len |-> 2, image |-> BlankOf(2)],
      [addr |-> 1, len |-> 1, image |-> ImageOf(1)],
      [addr |-> 1, len |-> 3, image |-> ImageOf(3)],
      [addr |-> 3, len |-> 2, image |-> BlankOf(2)] }
PageLoads == {[addr |-> 1, len |-> 3], [addr |-> 3, len |-> 2]}
=============================================================================
