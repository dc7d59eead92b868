------------------------------- MODULE MCConsole -------------------------------
EXTENDS Console

CONSTANT a

OneLetter == {a, NL, CR}
NamedReport == <<a, NL>>
UnnamedReport == <<NL>>
TypedKeys == {a, CR}
PrintedChars == {a, NL}
SomeStrings == {<<>>, <<a, NL>>}
================================================================================
