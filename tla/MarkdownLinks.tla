--------------------------- MODULE MarkdownLinks ---------------------------
(***************************************************************************)
(* What a link in a rendered markdown file opens (markdownLinks.ts and     *)
(* handleMarkdownClick): nothing, a page outside or a file, whose path is  *)
(* resolved against the directory of the file that is shown.               *)
(*                                                                         *)
(* A path is a record [absolute, parts], the parts between its slashes:    *)
(* names, ".", ".." and NoName of two slashes in a row.                    *)
(***************************************************************************)
EXTENDS Naturals, Sequences, SequencesExt

NoName == ""

Path(absolute, parts) == [absolute |-> absolute, parts |-> parts]

\* dirnamePath
Dirname(path) ==
  IF Len(path.parts) <= 1 THEN Path(path.absolute, <<>>)
                          ELSE Path(path.absolute, Front(path.parts))

\* The loop of joinNormalize: out[n] is its array after n parts.
Normalize(absolute, parts) ==
  LET out[n \in 0 .. Len(parts)] ==
        IF n = 0 THEN <<>>
        ELSE LET kept == out[n - 1]
             IN IF parts[n] \in {NoName, "."} THEN kept
                ELSE IF parts[n] # ".." THEN Append(kept, parts[n])
                ELSE IF kept # <<>> /\ Last(kept) # ".." THEN Front(kept)
                ELSE IF absolute THEN kept ELSE Append(kept, "..")
  IN Path(absolute, out[Len(parts)])

\* joinNormalize and resolveMarkdownPath: an absolute link ignores the file.
Resolve(file, link) ==
  IF link.absolute THEN Normalize(TRUE, link.parts)
  ELSE Normalize(file.absolute, Dirname(file).parts \o link.parts)

\* Where one arrives who walks along the parts: up[k] steps above the start, then
\* down the names.
Walk(absolute, parts) ==
  LET at[n \in 0 .. Len(parts)] ==
        IF n = 0 THEN [up |-> 0, down |-> <<>>]
        ELSE LET here == at[n - 1]
             IN CASE parts[n] \in {NoName, "."} -> here
                  [] parts[n] = ".." /\ here.down # <<>> -> [here EXCEPT !.down = Front(@)]
                  [] parts[n] = ".." /\ here.down = <<>> ->
                       IF absolute THEN here ELSE [here EXCEPT !.up = @ + 1]
                  [] OTHER -> [here EXCEPT !.down = Append(@, parts[n])]
  IN at[Len(parts)]

-----------------------------------------------------------------------------
(* Correctness *)

\* A link opens the file one arrives at who walks from the directory of the file
\* that is shown along the link.
LinkIsWalk(file, link) ==
  LET end == IF link.absolute THEN Walk(TRUE, link.parts)
             ELSE Walk(file.absolute, Dirname(file).parts \o link.parts)
      to == Resolve(file, link)
  IN /\ to.absolute = (link.absolute \/ file.absolute)
     /\ to.parts = [i \in 1 .. end.up |-> ".."] \o end.down
=============================================================================
