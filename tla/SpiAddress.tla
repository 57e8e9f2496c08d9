----------------------------- MODULE SpiAddress -----------------------------
(***************************************************************************)
(* Addresses on the wire.  An AT45 device takes a page number and an offset*)
(* in the page as one bit field; its data sheet gives the number of pages  *)
(* and their size, and the offset has as many bits as the size needs.      *)
(* dataflash.c has a table with the same facts and the shifts and masks it *)
(* makes the bytes of a command with.                                      *)
(***************************************************************************)
EXTENDS Integers

Byte == 0 .. 255

\* By the density bits of the status register (external).  The driver does not
\* know AT45DB021 and AT45DB081.
Datasheet ==
    [c \in {12, 16, 20, 28, 36, 44, 52, 60} |->
        CASE c = 12 -> [pages |-> 512,   size |-> 264]
          [] c = 20 -> [pages |-> 1024,  size |-> 264]
          [] c = 28 -> [pages |-> 2048,  size |-> 264]
          [] c = 36 -> [pages |-> 4096,  size |-> 264]
          [] c = 44 -> [pages |-> 4096,  size |-> 528]
          [] c = 52 -> [pages |-> 8192,  size |-> 528]
          [] c = 60 -> [pages |-> 8192,  size |-> 1056]
          [] c = 16 -> [pages |-> 16384, size |-> 1056]]

\* The chip's side (external): the offset field, the bytes of an address, the
\* address in a command f.
Field(g) == IF g.size <= 512 THEN 512 ELSE IF g.size <= 1024 THEN 1024 ELSE 2048
AddressBytes(g) == IF g.pages * Field(g) > 16777216 THEN 4 ELSE 3
AddressIn(g, f) ==
    IF AddressBytes(g) = 3 THEN f[2] * 65536 + f[3] * 256 + f[4]
    ELSE f[2] * 16777216 + f[3] * 65536 + f[4] * 256 + f[5]
PageIn(g, f) == (AddressIn(g, f) \div Field(g)) % g.pages
OffsetIn(g, f) == AddressIn(g, f) % Field(g)

-----------------------------------------------------------------------------
NoDevice ==
    [pages_number |-> 0, pages_size |-> 0, page_offset |-> 0, byte_mask |-> 0]
Entry(pages, size, offset, mask) ==
    [pages_number |-> pages, pages_size |-> size, page_offset |-> offset,
     byte_mask |-> mask]

\* The table of AT91F_DataflashInit.
Device(dfcode) ==
    CASE dfcode = 12 -> Entry(512, 264, 9, 256)
      [] dfcode = 28 -> Entry(2048, 264, 9, 256)
      [] dfcode = 44 -> Entry(4096, 528, 10, 768)
      [] dfcode = 52 -> Entry(8192, 528, 10, 768)
      [] dfcode = 60 -> Entry(8192, 1056, 11, 1792)
      [] dfcode = 16 -> Entry(16384, 1056, 11, 1792)
      [] OTHER       -> NoDevice

\* AT91F_DataflashProbe: the density bits, 0 if all bits are set.
ProbedCode(status) == IF status = 255 THEN 0 ELSE ((status \div 4) % 16) * 4

\* x << n, for the shifts of the table.
ShiftLeft(x, n) ==
    CASE n = 9 -> x * 512 [] n = 10 -> x * 1024 [] n = 11 -> x * 2048

Large(d) == d.pages_number >= 16384
CommandSize(d) == IF Large(d) THEN 5 ELSE 4

\* Mutant of Wire: the page number is not moved past the offset.
WireLinear(d, address) == address
\* Page and offset in one number.
Wire(d, address) ==
    ShiftLeft(address \div d.pages_size, d.page_offset) + (address % d.pages_size)

\* command[8] as AT91F_DataFlashSendCommand fills it.
Command(d, opcode, address) ==
    LET adr == Wire(d, address)
        b2 == (adr \div 65536) % 256
        b1 == (adr \div 256) % 256
        b0 == adr % 256
    IN  IF Large(d) THEN <<opcode, (adr \div 16777216) % 16, b2, b1, b0, 0, 0, 0>>
        ELSE <<opcode, b2, b1, b0, 0, 0, 0, 0>>

\* The same for AT91F_DataFlashWriteBuffer, which leaves the last three bytes.  The
\* masks of the table are all ones from bit 8 on.
BufferCommand(d, opcode, address, old) ==
    LET b1 == ((address % (d.byte_mask + 256)) \div 256) % 256
        b0 == address % 256
    IN  IF Large(d) THEN <<opcode, 0, 0, b1, b0, old[6], old[7], old[8]>>
        ELSE <<opcode, 0, b1, b0, 0, old[6], old[7], old[8]>>
=============================================================================
