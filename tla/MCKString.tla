----------------------------- MODULE MCKString ------------------------------
(* Instance of KString for TLC: every format of up to four characters out of *)
(* the conversions, % itself and a character of no meaning, ints of eight    *)
(* bits from both ends of their range and between, and an empty string.      *)
EXTENDS KString

MCFormats == SeqOf({Percent, CharS, CharD, CharX, 99}, 4)
MCStrings == {<<>>, <<97, Percent>>}
MCNumbers == {<<0>>, <<107>>, <<-128>>, <<-90>>}
=============================================================================
