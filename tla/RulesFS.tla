------------------------------- MODULE RulesFS -------------------------------
(***************************************************************************)
(* The file system of the embedded rules, with its aliases                 *)
(* (wasmplugin/fs.go).  A path is the sequence of its components; a file   *)
(* is known by its path.                                                   *)
(***************************************************************************)
EXTENDS Naturals, Sequences

CONSTANT Files   \* the paths of the embedded files

dirsMapping == [alias \in {"@owasp_crs"} |-> <<"crs">>]

filesMapping ==
  [alias \in {"@recommended-conf", "@demo-conf", "@ftw-conf",
              "@crs-setup-demo-conf", "@crs-setup-conf"} |->
     CASE alias = "@recommended-conf" -> <<"coraza.conf-recommended.conf">>
       [] alias = "@demo-conf" -> <<"coraza-demo.conf">>
       [] alias = "@ftw-conf" -> <<"ftw-config.conf">>
       [] OTHER -> <<"crs-setup.conf.example">>]

\* The files are embedded under names that are no aliases and make paths valid.
PlainNames == STRING \ ({"", ".", ".."} \cup DOMAIN dirsMapping \cup DOMAIN filesMapping)
ASSUME FilesAssumption == Files \subseteq Seq(PlainNames) \ {<<>>}

NoFile == <<>>

-----------------------------------------------------------------------------
(* The embedded file system.                                               *)

Root == <<".">>
ValidPath(p) ==
  p = Root \/ (p # <<>> /\ \A i \in DOMAIN p : p[i] \notin {"", ".", ".."})

Location(p) == IF p = Root THEN <<>> ELSE p
Under(d) == {f \in Files : Len(f) > Len(d) /\ SubSeq(f, 1, Len(d)) = d}
Children(d) == {f[Len(d) + 1] : f \in Under(d)}

\* No embedded directory is empty: no entry means that there is no directory.
fsReadDir(p) == IF ValidPath(p) THEN Children(Location(p)) ELSE {}
fsReadFile(p) == IF ValidPath(p) /\ p \in Files THEN p ELSE NoFile
fsOpen(p) == IF fsReadDir(p) # {} THEN p ELSE fsReadFile(p)

-----------------------------------------------------------------------------

BugMapPath(p) ==
  IF Len(p) = 1 /\ p[1] \in DOMAIN filesMapping THEN filesMapping[p[1]] ELSE p
\* Below an alias of a directory, else an alias of a file.
mapPath(p) ==
  CASE Len(p) > 1 /\ Head(p) \in DOMAIN dirsMapping -> dirsMapping[Head(p)] \o Tail(p)
    [] Len(p) = 1 /\ Head(p) \in DOMAIN filesMapping -> filesMapping[Head(p)]
    [] OTHER -> p

Open(name) == fsOpen(mapPath(name))

ReadFile(name) == fsReadFile(mapPath(name))

BugReadDir(name) == fsReadDir(mapPath(name))
\* The alias of a directory may be listed itself, too.
ReadDir(name) ==
  IF name # <<>> /\ Head(name) \in DOMAIN dirsMapping
  THEN fsReadDir(dirsMapping[Head(name)] \o Tail(name))
  ELSE fsReadDir(name)
=============================================================================
