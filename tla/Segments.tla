------------------------------ MODULE Segments ------------------------------
(***************************************************************************)
(* Segment descriptors (segments.c), field by field as the packed struct   *)
(* has them, and what the processor reads out of one.                      *)
(***************************************************************************)
EXTENDS Integers

CONSTANT N_GDT_ENTRIES   \* 8192

Word(value) == value % 2^16
Byte(value, shift) == (value \div 2^shift) % 2^8
Nibble(value, shift) == (value \div 2^shift) % 2^4

\* The fields that hold a base address and a limit.
Install(base, limit) ==
  [base_low_word |-> Word(base), base_mid_byte |-> Byte(base, 16), base_high_byte |-> Byte(base, 24),
   limit_low_word |-> Word(limit), limit_high |-> Nibble(limit, 16), G |-> 0]

\* Access fields: kind of segment, privilege level, present.
Access(kind, dpl) == [kind |-> kind, DPL |-> dpl, P |-> 1]

install_tss_to_gdt(base, limit) == [fields |-> Install(base, limit), access |-> Access("tss", 0)]
install_ldt_to_gdt(base, limit) == [fields |-> Install(base, limit), access |-> Access("ldt", 3)]
install_seg_to_ldt(base, limit, is_code) ==
  [fields |-> Install(base, limit), access |-> Access(IF is_code THEN "code" ELSE "data", 3)]

\* Slots a descriptor may be installed in; the kernel panics on any other.
InGdt(slot) == slot \in 1 .. N_GDT_ENTRIES - 1

\* A selector is the index of a descriptor, above three bits the kernel leaves 0.
Selector(slot) == slot * 8
Index(selector) == selector \div 8

\* What the processor makes of the fields.
Base(d) == d.fields.base_low_word + 2^16 * d.fields.base_mid_byte + 2^24 * d.fields.base_high_byte
Limit(d) == d.fields.limit_low_word + 2^16 * d.fields.limit_high
Extent(d) == [kind |-> d.access.kind, from |-> Base(d), to |-> Base(d) + Limit(d) + 1]
=============================================================================
