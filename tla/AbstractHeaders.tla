-------------------------- MODULE AbstractHeaders --------------------------
(***************************************************************************)
(* What a map of headers promises: every name has at most one list of      *)
(* lines, and a typed reading is a reading of those lines, whatever was    *)
(* read, printed or converted before.                                      *)
(***************************************************************************)
EXTENDS Sequences

CONSTANTS Names,            \* the names of headers
          Types,            \* Rust types of headers
          NameOf,           \* the name a type stands for
          Values,           \* the values of a type
          Parse,            \* the value lines are read as, or NoValue
          Format,           \* the lines a value is printed as, or Unprintable
          Given,            \* lists of lines callers pass
          Absent, Unprintable, NoValue

VARIABLES lines,  \* the lines of each name
          reply   \* the value the last access found, if it was a typed one

absVars == <<lines, reply>>

\* What lines are read as, or a value that is printed as them.
Readings(t, l) ==
    IF l = Absent THEN {NoValue}
    ELSE {v \in Values[t] : Format[t][v] = l} \union (IF l = Unprintable THEN {} ELSE {Parse[t][l]})

\* The name has these lines from now on, and the others keep theirs.
Replace(n, l) == lines'[n] = l /\ \A m \in Names \ {n} : lines'[m] = lines[m]

Put(t) == reply' = NoValue /\ \E v \in Values[t] : Replace(NameOf[t], Format[t][v])
PutLines(n) == reply' = NoValue /\ \E l \in Given : Replace(n, l)
AddLines(n) ==
    /\ reply' = NoValue
    /\ lines[n] # Unprintable
    /\ \E l \in Given : Replace(n, IF lines[n] = Absent THEN l ELSE lines[n] \o l)

\* Asking for lines leaves no value behind.
ReadLines == reply' = NoValue /\ UNCHANGED lines
Read(t) == reply' \in Readings(t, lines[NameOf[t]]) /\ UNCHANGED lines
\* A value that was found is changed in place.
Update(t) ==
    /\ lines[NameOf[t]] # Absent
    /\ reply' \in Readings(t, lines[NameOf[t]]) \ {NoValue}
    /\ \E v \in Values[t] : Replace(NameOf[t], Format[t][v])
\* A header that is removed need not be found as the type it is removed as.
Take(t) == reply' \in Readings(t, lines[NameOf[t]]) \union {NoValue} /\ Replace(NameOf[t], Absent)

Delete(n) == reply' = NoValue /\ Replace(n, Absent)
\* Other maps of headers hold no name without a line, so a conversion loses it.
Convert ==
    /\ reply' = NoValue
    /\ lines' = [n \in Names |-> IF lines[n] = <<>> THEN Absent ELSE lines[n]]
Clear == reply' = NoValue /\ lines' = [n \in Names |-> Absent]

Init == lines = [n \in Names |-> Absent] /\ reply = NoValue
Next ==
    \/ \E t \in Types : Put(t) \/ Read(t) \/ Update(t) \/ Take(t)
    \/ \E n \in Names : PutLines(n) \/ AddLines(n) \/ Delete(n)
    \/ ReadLines
    \/ Convert
    \/ Clear
=============================================================================
