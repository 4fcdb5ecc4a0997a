---------------------------- MODULE ConfigReader ----------------------------
(***************************************************************************)
(* ConfigReader: GetInt and GetString look for a name in the text of a      *)
(* file, then for the '=' behind it, and convert what follows.  The ten     *)
(* overloads are the same scan; they differ in the type they convert to and *)
(* in the memory behind the text: the buffer is as long as the file has     *)
(* bytes, so that the text of WCHARs fills the first half of it, and a text *)
(* of chars leaves out one byte for each line it has.  What is in that      *)
(* memory is what was there before.                                         *)
(*                                                                          *)
(* Names and values are short: what counts is which of them begin alike and *)
(* where they end.                                                          *)
(***************************************************************************)
EXTENDS Integers, Sequences, FiniteSets, SequencesExt

CONSTANTS
  Names,        \* the program asks for: sequences of characters
  Digits,       \* characters of a number
  Files,        \* texts: sequences of lines
  Leftovers     \* what memory may hold: sequences of characters, over and over

NL    == "newline"
Blank == {" ", NL}

\* What the constants have to be.
ConfigConstants ==
  /\ <<>> \notin Names \cup Leftovers
  /\ \A n \in Names : ToSet(n) \cap ({"="} \cup Blank) = {}

VARIABLES
  text,             \* lines of the file
  fileString,       \* the buffer
  valueName, type,  \* arguments: the name; "int" or "string"
  i,                \* index into fileString, from 0
  pc,
  returned, out     \* the result, and what was converted

vars == <<text, fileString, valueName, type, i, pc, returned, out>>

\* *outNumber and outString are as the caller left them.
Untouched == <<>>

Init ==
  /\ text \in Files
  /\ fileString = <<>> /\ valueName = <<>> /\ type = "int"
  /\ i = 0 /\ pc = "idle"
  /\ returned = FALSE /\ out = Untouched

Length   == Len(valueName)
fileSize == Len(fileString)

Return(ok) == returned' = ok /\ pc' = "done"

----------------------------------------------------------------------------
\* fopen, ftell and fread: the text and n characters of memory behind it.
Open(n, name, t) ==
  /\ pc = "idle"
  /\ \E m \in Leftovers :
       fileString' = FlattenSeq(text) \o [j \in 1 .. n |-> m[((j - 1) % Len(m)) + 1]]
  /\ valueName' = name /\ type' = t
  /\ IF Len(fileString') <= Len(name)
     THEN Return(FALSE)
     ELSE pc' = "find" /\ UNCHANGED returned
  /\ UNCHANGED <<text, i, out>>

\* "r" makes one newline of the two characters that end a line on Windows.
NarrowTails ==
  {0, Cardinality({ j \in DOMAIN FlattenSeq(text) : FlattenSeq(text)[j] = NL })}

\* A WCHAR has two bytes.
WideTails == {Len(FlattenSeq(text))}

GetIntNarrow(name)    == \E n \in NarrowTails : Open(n, name, "int")
GetIntWide(name)      == \E n \in WideTails   : Open(n, name, "int")
GetStringNarrow(name) == \E n \in NarrowTails : Open(n, name, "string")
GetStringWide(name)   == \E n \in WideTails   : Open(n, name, "string")

----------------------------------------------------------------------------
\* strncmp(fileString + at, valueName, valueNameLength) == 0
NameAt(at) == SubSeq(fileString, at + 1, at + Length) = valueName

FindName ==
  /\ pc = "find" /\ NameAt(i)
  /\ i' = i + Length /\ pc' = "skip"
  /\ UNCHANGED <<text, fileString, valueName, type, returned, out>>

\* The name and one character more have to fit.
NoRoomAfter(next) == fileSize - next <= Length

NextPlace ==
  /\ pc = "find" /\ ~NameAt(i)
  /\ i' = i + 1
  /\ IF NoRoomAfter(i + 1) THEN Return(FALSE) ELSE UNCHANGED <<pc, returned>>
  /\ UNCHANGED <<text, fileString, valueName, type, out>>

CharAt(at) == fileString[at + 1]

\* Mutant: the conversion begins with the '=' itself.
FindEqualsHere ==
  /\ pc = "skip" /\ CharAt(i) = "="
  /\ pc' = "convert"
  /\ UNCHANGED <<text, fileString, valueName, type, i, returned, out>>

FindEquals ==
  /\ pc = "skip" /\ CharAt(i) = "="
  /\ i' = i + 1 /\ pc' = "convert"
  /\ UNCHANGED <<text, fileString, valueName, type, returned, out>>

\* Mutant: the end of the buffer is one character late.
IsLastLate(next) == next >= fileSize + 1

IsLast(next) == next >= fileSize - 1

SkipChar ==
  /\ pc = "skip" /\ CharAt(i) # "="
  /\ i' = i + 1
  /\ IF IsLast(i + 1) THEN Return(FALSE) ELSE UNCHANGED <<pc, returned>>
  /\ UNCHANGED <<text, fileString, valueName, type, out>>

\* What %d or %s goes on reading.
InValue(c) == IF type = "int" THEN c \in Digits ELSE c \notin Blank

\* The first place at or behind at whose character is not in S.
FirstNot(S, at) ==
  CHOOSE f \in at .. fileSize :
    /\ \A j \in at .. f - 1 : CharAt(j) \in S
    /\ f < fileSize => CharAt(f) \notin S

ValueCharacters == { c \in ToSet(fileString) : InValue(c) }

\* No zero ends the buffer: behind it the conversion reads on.
ReadOn == { <<>> } \cup { <<m[1]>> : m \in { l \in Leftovers : InValue(l[1]) } }

\* sscanf skips white space, newlines included, and converts what it can; what it
\* returns is not looked at.
Convert ==
  /\ pc = "convert"
  /\ LET first == FirstNot(Blank, i)
         end   == FirstNot(ValueCharacters, first)
         value == SubSeq(fileString, first + 1, end)
     IN  out' \in { value \o more : more \in IF end = fileSize THEN ReadOn ELSE {Untouched} }
  /\ Return(TRUE)
  /\ UNCHANGED <<text, fileString, valueName, type, i>>

Done == pc = "done" /\ UNCHANGED vars

Call == \E n \in Names :
          GetIntNarrow(n) \/ GetIntWide(n) \/ GetStringNarrow(n) \/ GetStringWide(n)

NextStep == Call \/ FindName \/ NextPlace \/ FindEquals \/ SkipChar \/ Convert \/ Done

Spec == Init /\ [][NextStep]_vars

----------------------------------------------------------------------------
\* The values the variables range over: the scan stays in the buffer, no name is
\* compared with and no '=' is looked for in what is behind it.
TypeOK ==
  /\ text \in Files
  /\ valueName \in Names \cup {<<>>} /\ type \in {"int", "string"}
  /\ i \in 0 .. fileSize
  /\ pc = "find" => i + Length < fileSize
  /\ pc = "skip" => i < fileSize
  /\ pc \in {"idle", "find", "skip", "convert", "done"}
  /\ returned \in BOOLEAN

\* The line the header shows (ConfigReader.h:9).
Line(n, v) == n \o <<" ", "=", " ">> \o v \o <<NL>>

Mentions(l, n) == \E j \in 1 .. Len(l) - Len(n) + 1 : SubSeq(l, j, j + Len(n) - 1) = n

IsValue(v) == v # <<>> /\ \A j \in DOMAIN v : InValue(v[j])

\* The values of n in the text: of the first line that mentions n, when that is a
\* line for n.
Written(n) ==
  { v \in { SubSeq(text[k], Len(n) + 4, Len(text[k]) - 1) : k \in DOMAIN text } :
      /\ IsValue(v)
      /\ \E k \in DOMAIN text : /\ text[k] = Line(n, v)
                                /\ \A h \in 1 .. k - 1 : ~Mentions(text[h], n) }

\* A value written as the header shows is the one that is read, whatever lines are
\* around it, whatever else begins with its name, and whatever is in memory.
ReadsWhatIsWritten ==
  pc = "done" /\ Written(valueName) # {} => returned /\ out \in Written(valueName)
=============================================================================
