------------------------------- MODULE GenDemo -------------------------------
(***************************************************************************)
(* The code generator of the NATS plugin                                   *)
(* (example/nats/protoc-gen-demo/main.go): how it finds the message a      *)
(* method's request or response names, and the Go package it is given.     *)
(*                                                                         *)
(* A dotted name is a sequence of its parts.  A file has a package, the    *)
(* full names of its messages without it, and an option go_package, of     *)
(* which only what the semicolons in it separate counts: an import path    *)
(* and a name, one part, empty when there is no option, or too many.       *)
(* protoc has seen to it that all names are declared once.                 *)
(***************************************************************************)
EXTENDS Naturals, Sequences, SequencesExt

CONSTANTS
  Nil,
  FileLists  \* sequences of [package, messages, goPackage]

VARIABLES
  files,    \* request.ProtoFile
  ref,      \* the message referred to: the file that declares it and its name
  pc,       \* "package", "message", "done", or "fatal" of log.Fatalf
  pkgpath,  \* the package tried
  fd,       \* the file looked in
  path,     \* what of the name is not looked up yet
  d         \* the name of the message found so far

vars == <<files, ref, pc, pkgpath, fd, path, d>>

File == [package: Seq(STRING), messages: SUBSET (Seq(STRING) \ {<<>>}),
         goPackage: Seq(STRING) \ {<<>>}]

GenAssumption == FileLists \subseteq Seq(File) /\ Nil \notin STRING

FullName(f, m) == f.package \o m

\* What protoc accepts: a full name is of one message, and of no package.
Legal(fs) ==
  LET Declared(k) == {FullName(fs[k], m) : m \in fs[k].messages}
  IN  /\ \A j, k \in DOMAIN fs : j # k => Declared(j) \cap Declared(k) = {}
      /\ \A j, k \in DOMAIN fs : \A n \in Declared(j) : ~IsPrefix(n, fs[k].package)
      /\ \A k \in DOMAIN fs : \A m \in fs[k].messages :
           Len(m) > 1 => Front(m) \in fs[k].messages

Name == FullName(files[ref.file], ref.message)

TypeOK ==
  /\ Legal(files)
  /\ ref.file \in DOMAIN files /\ ref.message \in files[ref.file].messages
  /\ pc \in {"package", "message", "done", "fatal"}
  /\ IsPrefix(pkgpath, Front(Name))
  /\ fd \in DOMAIN files \cup {Nil}
  /\ fd # Nil => Name = files[fd].package \o d \o path

\* splitTypePath
Init ==
  /\ files \in {fs \in FileLists : Legal(fs)}
  /\ \E k \in DOMAIN files : \E m \in files[k].messages : ref = [file |-> k, message |-> m]
  /\ pc = "package"
  /\ pkgpath = Front(Name)
  /\ fd = Nil
  /\ path = Name
  /\ d = <<>>

------------------------------------------------------------------------------
InPackage(p) == {k \in DOMAIN files : files[k].package = p}

\* A mutant: the last file of a package.
lookupLastFileDescriptor(p) ==
  CHOOSE k \in InPackage(p) : \A j \in InPackage(p) : j <= k

\* The first file of a package.
lookupFileDescriptor(p) ==
  CHOOSE k \in InPackage(p) : \A j \in InPackage(p) : k <= j

Fatal == pc' = "fatal" /\ UNCHANGED <<files, ref, pkgpath, fd, path, d>>

FindPackage ==
  /\ pc = "package"
  /\ InPackage(pkgpath) # {}
  /\ fd' = lookupFileDescriptor(pkgpath)
  /\ path' = SubSeq(path, Len(pkgpath) + 1, Len(path))
  /\ pc' = "message"
  /\ UNCHANGED <<files, ref, pkgpath, d>>

DropToken ==
  /\ pc = "package"
  /\ InPackage(pkgpath) = {} /\ Len(pkgpath) > 1
  /\ pkgpath' = Front(pkgpath)
  /\ UNCHANGED <<files, ref, pc, fd, path, d>>

\* A name of one part is in no package, and the file it is in is found: the
\* package never loses its last part here.
NoPackage ==
  /\ pc = "package"
  /\ InPackage(pkgpath) = {} /\ Len(pkgpath) = 1
  /\ Fatal

\* A message of the file, or one nested in the last found.
FindMessage ==
  /\ pc = "message" /\ path # <<>>
  /\ Append(d, Head(path)) \in files[fd].messages
  /\ d' = Append(d, Head(path))
  /\ path' = Tail(path)
  /\ UNCHANGED <<files, ref, pc, pkgpath, fd>>

NoSuchType ==
  /\ pc = "message" /\ path # <<>>
  /\ Append(d, Head(path)) \notin files[fd].messages
  /\ Fatal

lookupMessageType ==
  FindPackage \/ DropToken \/ NoPackage \/ FindMessage \/ NoSuchType

\* The part behind the semicolon, if there is one; Nil for log.Fatalf.
getGoPackage(f) ==
  CASE Len(f.goPackage) = 1 -> f.goPackage[1]
    [] Len(f.goPackage) = 2 -> f.goPackage[2]
    [] OTHER                -> Nil

\* getGoType names the message it looked up in the package of its file.
Return ==
  /\ pc = "message" /\ path = <<>>
  /\ getGoPackage(files[fd]) # Nil
  /\ pc' = "done"
  /\ UNCHANGED <<files, ref, pkgpath, fd, path, d>>

TooManyParts ==
  /\ pc = "message" /\ path = <<>>
  /\ getGoPackage(files[fd]) = Nil
  /\ Fatal

getGoType == lookupMessageType \/ Return \/ TooManyParts

Next == getGoType

Spec == Init /\ [][Next]_vars

------------------------------------------------------------------------------
(* Properties *)

\* A reference is resolved to the message it names, whatever packages and
\* messages have parts of their names in common, unless its package is spread
\* over files, of which only the first is looked in, or it is nested and in no
\* package, or its file has a go_package of more than two parts (main.go:19-32,
\* 102-157).
ReferencesResolve ==
  /\ pc = "done" => fd = ref.file /\ d = ref.message
  /\ pc = "fatal" =>
       LET f == files[ref.file]
       IN  \/ \E k \in 1..ref.file - 1 : files[k].package = f.package
           \/ f.package = <<>> /\ Len(ref.message) > 1
           \/ Len(f.goPackage) > 2

\* "If it containts a semicolon, only the part before it is returned"
\* (main.go:17-18).
PartBeforeSemicolon ==
  \A k \in DOMAIN files :
    Len(files[k].goPackage) = 2 =>
      getGoPackage(files[k]) = files[k].goPackage[1]

==============================================================================
