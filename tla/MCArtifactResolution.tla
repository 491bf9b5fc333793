-------------------------- MODULE MCArtifactResolution --------------------------
(* A pack with a payload, two direct SDL documents and a module cache entry,   *)
(* the second document not listed in the first manifest.                       *)
EXTENDS ArtifactResolution

MCNameOrder == <<"A", "a", "manifest", "pack", "s", "sdl", "t", "x">>
MCFoldOf == [n \in ToSet(MCNameOrder) |-> IF n = "A" THEN "a" ELSE n]
MCDirs == {"root", "sdldir", "cache", "outside"}
MCFiles == {"fpack", "fmanifest", "fa", "fs", "secret", "f1", "f2"}
P(a) == <<a>>
Sdl(a) == <<"sdl", a>>
MCPaths == {P("pack"), P("manifest"), P("a"), P("A"), Sdl("s"), Sdl("t")}

Listing1 == [p \in {P("pack"), P("a"), Sdl("s")} |->
               CASE p = P("pack") -> "v1" [] p = P("a") -> "p1" [] OTHER -> "s1"]
Listing2 == [p \in {P("pack"), P("a"), Sdl("s"), Sdl("t")} |->
               CASE p = P("pack") -> "v1" [] p = P("a") -> "p2" [] OTHER -> "s1"]
M1 == [version |-> "v1", of |-> Listing1, parent |-> "s1"]
M2 == [version |-> "v1", of |-> Listing2, parent |-> "s1"]

MCManifests == [m1 |-> M1, m2 |-> M2]

MCDirsInit ==
  [d \in MCDirs |-> [n \in ToSet(MCNameOrder) |->
     CASE d = "root" /\ n = "pack" -> FileEntry("fpack")
       [] d = "root" /\ n = "manifest" -> FileEntry("fmanifest")
       [] d = "root" /\ n = "a" -> FileEntry("fa")
       [] d = "root" /\ n = "sdl" -> DirEntry("sdldir")
       [] d = "sdldir" /\ n = "s" -> FileEntry("fs")
       [] d = "sdldir" /\ n = "x" -> DirEntry("cache")
       [] d = "outside" /\ n = "s" -> FileEntry("secret")
       [] OTHER -> Absent]]
Refreshed ==
  [f \in MCFiles |-> CASE f = "fpack" -> "v1" [] f = "fmanifest" -> "m1"
                       [] f = "fa" -> "p1" [] f = "fs" -> "s1" [] OTHER -> "secret"]
MCFilesInit == {Refreshed, [Refreshed EXCEPT !["fa"] = "p2"]}
MCSaves ==
  [m \in MCDirs \X ToSet(MCNameOrder) |->
     CASE m = <<"root", "pack">> -> {"v2"}
       [] m = <<"root", "manifest">> -> {"m2"}
       [] m = <<"root", "a">> -> {"p2", "big"}
       [] m = <<"root", "A">> -> {"p1"}
       [] m = <<"sdldir", "s">> -> {"s2", "bad"}
       [] m = <<"sdldir", "t">> -> {"s1"}
       [] OTHER -> {}]
MCOperations ==
  {[mode |-> "resolve", selected |-> P("a")], [mode |-> "resolve", selected |-> Sdl("s")],
   [mode |-> "validate", selected |-> None], [mode |-> "derive", selected |-> None]}
MCSdl == {Sdl("s"), Sdl("t")}
MCPack == P("pack")
MCManifest == P("manifest")
MCCache == Sdl("x")
================================================================================
