----------------------------- MODULE SlabLayout -----------------------------
(***************************************************************************)
(* Where things are in the page of one slab: the arithmetic of slab.c and  *)
(* utils.h on addresses and sizes.  Addresses are natural numbers, NULL is *)
(* address 0, and a slab is named by the address of its page.              *)
(***************************************************************************)
EXTENDS Integers

CONSTANT PageSize    \* what sysconf(_SC_PAGESIZE) returns

NULL        == 0
NonExistant == 65535 \* NON_EXISTANT, (uint16_t)(-1)
HeaderSize  == 64    \* sizeof(struct mem_slab) on an LP64 target
BufctlSize  == 5     \* sizeof(struct slab_bufctl), which is packed
PageMask    == 4096  \* get_page_pointer clears the bits of 0xFFF

\* utils.h masks 4 KiB whatever the kernel's page size is, and says so: a
\* larger page is outside what the code supports.
ASSUME PageSizeAssumption ==
  /\ PageSize \in Nat
  /\ HeaderSize <= PageSize
  /\ PageSize <= PageMask

\* A value stored in a uint16_t, and a mutant that keeps it an int.
AnInt(k) == k

UInt16(k) == k % 65536

\* The start of the page that holds an address.
PagePointer(ptr) == (ptr \div PageMask) * PageMask

PageAligned(page) == page \in Nat \ {NULL} /\ PagePointer(page) = page

\* How many buffers prepare_slab_header gives to a slab of this size.
NumBuffers(size) == (PageSize - HeaderSize) \div (size * BufctlSize)

FreelistBuffer(page) == page + HeaderSize

\* The first data byte: num_buffers bytes after the start of the bufctl array.
AllocableBuffer(page, size) == FreelistBuffer(page) + NumBuffers(size)

\* A mutant of BufferPtr that forgets to scale the index.
Unscaled(allocable, size, index) == allocable + index

\* The address of a buffer, and the index of the buffer at an address.
BufferPtr(allocable, size, index) == allocable + size * index

BufferIndex(allocable, size, ptr) == UInt16((ptr - allocable) \div size)
=============================================================================
