------------------------------ MODULE FileNames ------------------------------
(***************************************************************************)
(* The name a downloaded file is saved under: taken from the response's    *)
(* Content-Disposition header (session.rs) and accepted or refused as a    *)
(* path of the operating system (util.rs).                                 *)
(***************************************************************************)
EXTENDS HeaderFields

CONSTANT CwdDirs    \* names of the directories in the process's current directory

\* Bytes that are not UTF-8 become the replacement character.
Lossy(t) == [i \in DOMAIN t |-> IF t[i] = NotUtf8 THEN "<replacement>" ELSE t[i]]

\* The first name among the parameters, in either format.
ContentDispositionFileName(c) ==
    LET names == {i \in DOMAIN c.parameters : IsFilename(c.parameters[i])}
    IN  IF names = {} THEN Err ELSE Ok(Lossy(c.parameters[Min(names)].bytes))

\* std::path: empty components and "." are skipped, but for a "." the path begins with.
Rooted(t) == t # <<>> /\ t[1] = "/"
Components(t) ==
    LET parts == Split(t, "/")
        kept == {i \in DOMAIN parts : parts[i] # <<>> /\ (parts[i] # <<".">> \/ i = 1)}
    IN  ElementsAt(parts, kept)

\* Mutant: a path from the root passes, if it has one component.
ValidateFileName_Rooted(t) ==
    LET components == Components(t)
    IN  Len(components) = 1 /\ components[1] \notin ({<<".">>, <<"..">>} \union CwdDirs)
\* No parent but the empty path, not a directory that exists here, and a last component that is
\* a name. A separator or "/." after the name makes no difference to any of these.
ValidateFileName(t) ==
    LET components == Components(t)
    IN  /\ ~Rooted(t)
        /\ Len(components) = 1
        /\ components[1] \notin ({<<".">>, <<"..">>} \union CwdDirs)

\* The file name of a response with these Content-Disposition lines, of which only the first counts.
Accepted(name) == IF name.ok THEN OkIf(ValidateFileName(name.val), name.val) ELSE Err
ResponseFileName(lines) ==
    LET disposition == ParseContentDisposition(<<Head(lines)>>)
    IN  IF disposition.ok THEN Accepted(ContentDispositionFileName(disposition.val)) ELSE Err
=============================================================================
