------------------------------- MODULE Archive -------------------------------
(***************************************************************************)
(* What becomes of a scaffold between the administrator's disk and the     *)
(* student's workspace: some tool packs the project, normalizeScaffold-    *)
(* Archive unpacks the upload, drops what the operating system left in it, *)
(* takes the wrapping folders off one by one and packs the rest again.     *)
(*                                                                         *)
(* A path is a sequence of names, a name is one unit of length, and the    *)
(* content of a project's file is named by its path in the project.        *)
(*                                                                         *)
(* The specification and its parts carry the module's name, because one    *)
(* module states theorems about it and about ProblemStore.                 *)
(***************************************************************************)
EXTENDS Integers, Sequences, FiniteSets

CONSTANTS
  Projects,     \* each a set of entries [path, kind]; a "dir" is an empty directory
  Wrappers,     \* folders around the project in the archive
  Junk,         \* __MACOSX, .DS_Store, Thumbs.db, desktop.ini
  NameMax,      \* 100 bytes of the name field of a ustar header
  PrefixMax,    \* 155 bytes of its prefix field
  MaxEntries,   \* MAX_ENTRIES of a zip
  MaxFlatten    \* 16

Nothing == <<>>
Stages == {"uploaded", "unwrapping", "stored", "refused"}
Kinds == {"file", "dir", "link"}
Parts(path) == {path[i] : i \in 1 .. Len(path)}

(* Nothing on a disk is named "." or "..": a tool writes "./" before all   *)
(* it packs, or ".." when it is started in another directory.              *)
OnDisk ==
  /\ {NameMax, PrefixMax, MaxEntries, MaxFlatten} \subseteq Nat
  /\ NameMax > 0
  /\ Junk \in STRING \ {".", ".."}
  /\ \A p \in Projects : \A e \in p :
       /\ e \in [path : Seq(STRING) \ {Nothing}, kind : Kinds]
       /\ Parts(e.path) \cap {".", ".."} = {}
  /\ \A w \in Wrappers : w \in Seq(STRING) /\ "." \notin Parts(w)

ASSUME ArchiveAssumption == OnDisk

VARIABLES
  project, tool,  \* what was packed, and how
  upload,         \* the members of the archive that was sent
  stage,
  files,          \* the list normalizeScaffoldArchive works on
  flattened,
  tgz,            \* the members of the stored archive
  first           \* what was stored before it was downloaded and sent again

archiveVars == <<project, tool, upload, stage, files, flattened, tgz, first>>

(* Zip tools keep links as files that hold the target and may leave out    *)
(* the entries of directories; tar lists everything, often below "./", and *)
(* has a header of its own, GNU's or POSIX's, for a long name.             *)
Tools ==
  [form : {"zip"}, wrapper : Wrappers, junk : BOOLEAN, dirs : BOOLEAN,
   dot : {FALSE}, long : {"utf8"}]
  \cup
  [form : {"tar"}, wrapper : Wrappers, junk : BOOLEAN, dirs : {TRUE},
   dot : BOOLEAN, long : {"gnu", "pax"}]

Parents(path) == {SubSeq(path, 1, n) : n \in 1 .. Len(path) - 1}

Member(path, kind, data) == [path |-> path, kind |-> kind, data |-> data]

Inside(p, t) ==
  {Member(t.wrapper \o e.path, e.kind, IF e.kind = "file" THEN e.path ELSE Nothing) :
     e \in {e \in p : e.kind = "dir" => t.dirs}}

Litter(t) ==
  IF t.junk THEN {Member(t.wrapper \o <<Junk>>, "file", Nothing),
                  Member(<<Junk>> \o t.wrapper \o <<Junk>>, "file", Nothing)}
  ELSE {}

Directories(members) ==
  {Member(d, "dir", Nothing) : d \in UNION {Parents(m.path) : m \in members}}

Listed(p, t) ==
  LET found == Inside(p, t) \cup Litter(t)
  IN  found \cup (IF t.dirs THEN Directories(found) ELSE {})

Archived(p, t) ==
  IF t.dot THEN {[m EXCEPT !.path = <<".">> \o @] : m \in Listed(p, t)}
                  \cup {Member(<<".">>, "dir", Nothing)}
  ELSE Listed(p, t)

ArchiveInit ==
  /\ project \in Projects
  /\ tool \in {t \in Tools : ".." \in Parts(t.wrapper) => ~ t.dot}
  /\ upload = Archived(project, tool)
  /\ stage = "uploaded"
  /\ files = {} /\ flattened = 0 /\ tgz = {} /\ first = {}

-----------------------------------------------------------------------------
(* extractZipEntries                                                       *)
ZipEntries == {[path |-> m.path, isDir |-> m.kind = "dir", data |-> m.data] : m \in upload}

(* iterateTar: prefix and name of the header, or the long name of GNU's    *)
(* header; POSIX's is skipped.                                             *)
HeaderName(path) ==
  IF Len(path) <= NameMax + PrefixMax \/ tool.long = "gnu" THEN path
  ELSE SubSeq(path, 1, NameMax + PrefixMax)

CleanPath(path) == IF path[1] = "." THEN Tail(path) ELSE path

Listable(path) == path # <<>> /\ ".." \notin Parts(path)

(* extractTgzEntries: regular files and directories                        *)
TgzEntries ==
  {[path |-> CleanPath(HeaderName(m.path)), isDir |-> m.kind = "dir", data |-> m.data] :
     m \in {m \in upload : m.kind # "link" /\ Listable(CleanPath(HeaderName(m.path)))}}

(* Mutant: the filter is missing.                                          *)
NoJunk(path) == FALSE

IsJunk(path) == Junk \in Parts(path)

Refuse == stage' = "refused" /\ UNCHANGED <<files, flattened, tgz>>

Extract ==
  /\ stage = "uploaded"
  /\ IF tool.form = "zip" /\ Cardinality(upload) > MaxEntries THEN Refuse
     ELSE /\ files' = {f \in (IF tool.form = "zip" THEN ZipEntries ELSE TgzEntries) : ~ IsJunk(f.path)}
          /\ flattened' = 0 /\ stage' = "unwrapping" /\ UNCHANGED tgz
  /\ UNCHANGED <<project, tool, upload, first>>

(* One directory and nothing else at the root.                             *)
HasWrapper(list) ==
  \E root \in {f.path[1] : f \in list} :
    \A f \in list : f.path[1] = root /\ (Len(f.path) = 1 => f.isDir)

(* Mutant: one level at most.                                              *)
OneLevel == flattened = 0

MayUnwrap == flattened <= MaxFlatten

Unwrap ==
  /\ stage = "unwrapping" /\ HasWrapper(files) /\ MayUnwrap
  /\ files' = {[f EXCEPT !.path = Tail(@)] : f \in {f \in files : Len(f.path) > 1}}
  /\ flattened' = flattened + 1
  /\ UNCHANGED <<project, tool, upload, stage, tgz, first>>

(* splitName: prefix and name meet at a segment's boundary.                *)
Fits(path) ==
  \E i \in 0 .. Len(path) - 1 : i <= PrefixMax /\ Len(path) - i <= NameMax

Pack ==
  /\ stage = "unwrapping" /\ ~ (HasWrapper(files) /\ MayUnwrap)
  /\ IF (\A f \in files : f.isDir) \/ (\E f \in files : ~ Fits(f.path)) THEN Refuse
     ELSE /\ tgz' = {Member(f.path, IF f.isDir THEN "dir" ELSE "file", f.data) : f \in files}
          /\ stage' = "stored" /\ UNCHANGED <<files, flattened>>
  /\ UNCHANGED <<project, tool, upload, first>>

(* The administrator downloads the stored archive and sends it again.      *)
Reupload ==
  /\ stage = "stored" /\ first = {} /\ flattened <= MaxFlatten
  /\ first' = tgz /\ upload' = tgz /\ stage' = "uploaded"
  /\ tool' = [tool EXCEPT !.form = "tar", !.dirs = TRUE, !.long = "gnu"]
  /\ UNCHANGED <<project, files, flattened, tgz>>

ArchiveNext == Extract \/ Unwrap \/ Pack \/ Reupload

ArchiveSpec == ArchiveInit /\ [][ArchiveNext]_archiveVars

-----------------------------------------------------------------------------
ArchiveTypeOK ==
  /\ project \in Projects /\ stage \in Stages
  /\ flattened \in 0 .. MaxFlatten + 1
  /\ \A m \in upload \cup tgz \cup first : m.path # <<>> /\ m.kind \in Kinds
  /\ \A f \in files : f.path # <<>> /\ f.isDir \in BOOLEAN

(* With whatever tool a project was packed, students find its files where  *)
(* they are in the project, but for what the operating system left there,  *)
(* provided that what the tool packs of it is not itself a single folder,  *)
(* that no more folders were wrapped around it than the guard lets through *)
(* and that no name needed POSIX's header.  (normalizeScaffoldArchive)     *)
Kept ==
  {e \in project : /\ ~ IsJunk(e.path)
                   /\ e.kind = "dir" => tool.dirs
                   /\ e.kind = "link" => tool.form = "zip"}
Carried == {[path |-> e.path, isDir |-> e.kind = "dir"] : e \in Kept}
Legible == tool.long = "pax" => \A m \in upload : Len(m.path) <= NameMax + PrefixMax

Content(members) == {<<m.path, m.data>> : m \in {m \in members : m.kind = "file" /\ m.data # Nothing}}
RootIsPreserved ==
  stage = "stored" /\ first = {} /\ ~ HasWrapper(Carried) /\ Legible
      /\ Len(tool.wrapper) <= MaxFlatten + 1
    => Content(tgz) = {<<e.path, e.path>> : e \in {e \in Kept : e.kind = "file"}}

(* What was normalized once stays as it is, byte for byte, when it is      *)
(* downloaded and uploaded again: an overwrite with the same files keeps   *)
(* the digest of the version.                                              *)
(* (normalizeScaffoldArchive, createTgz)                                   *)
NormalizedOnce == stage = "stored" /\ first # {} => tgz = first
=============================================================================
