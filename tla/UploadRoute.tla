---------------------------- MODULE UploadRoute ----------------------------
(***************************************************************************)
(* The body of an upload on its way into the storage (upload.py): the      *)
(* parser is pumped with what the network brings, its callbacks keep the   *)
(* data of the file part, and the route checks, stores, registers, or      *)
(* refuses and lets the client go on sending for a while.  ChatHistory     *)
(* takes the whole of it for one step.                                     *)
(***************************************************************************)
EXTENDS Naturals, SequencesExt

CONSTANTS
  Bodies,      \* sequences of parts: a filename or "none", and the pieces of its data
  DrainBytes,  \* pieces read after a refusal, at most
  Sends        \* uploads in one behaviour

FileNames == UNION {{parts[i].name : i \in DOMAIN parts} : parts \in Bodies} \ {"none"}

ASSUME UploadAssumption ==
  /\ \A parts \in Bodies : parts \in Seq([name : FileNames \cup {"none"}, size : Nat])
  /\ DrainBytes \in Nat /\ Sends \in Nat

VARIABLES
  body,      \* what the client sends of a body: callbacks of the parser, in order
  coming,    \* and what of it has not been parsed yet
  part,      \* MultipartFile
  step,      \* where upload() is
  target,    \* the key the file goes to
  images,    \* key -> data
  listed,    \* session.files
  tabIs,     \* the session: live, gone
  reply, skipped, sends

uploadVars == <<body, coming, part, step, target, images, listed, tabIs, reply, skipped, sends>>

\* What the parser calls for a part: the end of its headers, its data, its end.
CallbacksOf(parts, i) ==
  <<[on |-> "headers", of |-> i, name |-> parts[i].name]>>
    \o [j \in 1 .. parts[i].size |-> [on |-> "data", of |-> i, piece |-> j]]
    \o <<[on |-> "end", of |-> i]>>

Callbacks(parts) ==
  LET f[n \in 0 .. Len(parts)] == IF n = 0 THEN <<>> ELSE f[n - 1] \o CallbacksOf(parts, n)
  IN  f[Len(parts)]

NewPart ==
  [filename |-> "none", type |-> "none", found |-> FALSE, done |-> FALSE, eof |-> FALSE,
   pending |-> <<>>]

UploadInit ==
  /\ body = <<>> /\ coming = <<>> /\ part = NewPart
  /\ step = "idle" /\ target = "none" /\ images = [n \in FileNames |-> <<>>]
  /\ listed = {} /\ tabIs = "live" /\ reply = [status |-> "none"] /\ skipped = 0 /\ sends = 0

-----------------------------------------------------------------------------
(* MultipartFile                                                           *)

OnHeadersFinished(p, name) ==
  IF name = "none" THEN p
  ELSE [p EXCEPT !.filename = name, !.type = name, !.found = TRUE]

\* A variant that keeps the data of every file part.
OnPartDataOfAny(p, datum) ==
  IF ~p.found THEN p ELSE [p EXCEPT !.pending = Append(@, datum)]

OnPartData(p, datum) ==
  IF ~p.found \/ p.done THEN p ELSE [p EXCEPT !.pending = Append(@, datum)]

OnPartEnd(p) == IF p.found THEN [p EXCEPT !.done = TRUE] ELSE p

Called(p, c) ==
  CASE c.on = "headers" -> OnHeadersFinished(p, c.name)
    [] c.on = "data" -> OnPartData(p, <<c.of, c.piece>>)
    [] c.on = "end" -> OnPartEnd(p)

\* A part after the first of some callbacks.
Parsed(p, calls) ==
  LET f[n \in 0 .. Len(calls)] == IF n = 0 THEN p ELSE Called(f[n - 1], calls[n])
  IN  f

\* The network brings more of the body, or its end.
Pumped(p) ==
  \/ \E n \in 1 .. Len(coming) :
       /\ p = Parsed(part, coming)[n]
       /\ coming' = SubSeq(coming, n + 1, Len(coming))
  \/ coming = <<>> /\ p = [part EXCEPT !.eof = TRUE] /\ UNCHANGED coming

AnyPump ==
  {Parsed(part, coming)[n] : n \in 1 .. Len(coming)} \cup {[part EXCEPT !.eof = TRUE]}

Pump == \E p \in AnyPump : Pumped(p) /\ part' = p

-----------------------------------------------------------------------------
(* UploadRoute.upload                                                      *)

ReplyWith(status) ==
  /\ step' = "idle" /\ reply' = [status |-> status]
  /\ UNCHANGED <<body, coming, part, target, images, listed, tabIs, skipped, sends>>

\* An HTTPException: the rest of the body is read for a while first.
Refuses(status) ==
  /\ step' = "drain" /\ reply' = [status |-> status] /\ skipped' = 0
  /\ UNCHANGED <<body, coming, part, target, images, listed, tabIs, sends>>

\* The client sends a body, perhaps not up to its end.
Send ==
  /\ step = "idle" /\ sends < Sends /\ sends' = sends + 1
  /\ \E parts \in Bodies : \E n \in 0 .. Len(Callbacks(parts)) :
       body' = SubSeq(Callbacks(parts), 1, n)
  /\ coming' = body' /\ part' = NewPart /\ step' = "session"
  /\ reply' = [status |-> "none"]
  /\ UNCHANGED <<target, images, listed, tabIs, skipped>>

\* A body that is no multipart form is refused before the try: nothing is drained.
NoForm == step = "session" /\ ReplyWith("no_form")

CheckSession ==
  /\ step = "session"
  /\ IF tabIs = "gone" THEN Refuses("no_session")
     ELSE \/ Refuses("not_yours")
          \/ step' = "open" /\ UNCHANGED <<body, coming, part, target, images, listed, tabIs,
                                           reply, skipped, sends>>

Open ==
  /\ step = "open" /\ ~part.found
  /\ IF part.eof THEN Refuses("no_file")
     ELSE Pump /\ UNCHANGED <<body, step, target, images, listed, tabIs, reply, skipped, sends>>

\* The headers of the file pass the checks of chainlit, and the storage is
\* opened under the key they give.
Validate ==
  /\ step = "open" /\ part.found
  /\ \/ Refuses("no_parent") \/ Refuses("invalid")
     \/ /\ step' = "store" /\ target' = part.filename
        /\ images' = [images EXCEPT ![target'] = <<>>]
        /\ UNCHANGED <<body, coming, part, listed, tabIs, reply, skipped, sends>>

StoreChunk ==
  /\ step = "store" /\ part.pending # <<>>
  /\ images' = [images EXCEPT ![target] = Append(@, Head(part.pending))]
  /\ part' = [part EXCEPT !.pending = Tail(@)]
  /\ UNCHANGED <<body, coming, step, target, listed, tabIs, reply, skipped, sends>>

StorageFull == step = "store" /\ Refuses("no_space")

NextChunks ==
  /\ step = "store" /\ part.pending = <<>> /\ ~part.done /\ ~part.eof
  /\ Pump /\ UNCHANGED <<body, step, target, images, listed, tabIs, reply, skipped, sends>>

\* The file is stored; the session may have ended meanwhile, and its files
\* with it.
Register ==
  /\ step = "store" /\ part.pending = <<>> /\ (part.done \/ part.eof)
  /\ LET file == [name |-> target, type |-> part.type, size |-> Len(images[target])]
     IN  /\ listed' = IF tabIs = "live" THEN listed \cup {file} ELSE listed
         /\ reply' = [status |-> "stored", file |-> file]
  /\ step' = "idle"
  /\ UNCHANGED <<body, coming, part, target, images, tabIs, skipped, sends>>

\* The client is gone, the body is malformed, the storage fails otherwise.
Breaks == step \in {"open", "store", "drain"} /\ ReplyWith("failed")

Drain ==
  /\ step = "drain" /\ ~part.eof /\ skipped < DrainBytes
  /\ \E p \in AnyPump :
       /\ Pumped(p) /\ skipped' = skipped + Len(p.pending)
       /\ part' = [p EXCEPT !.pending = <<>>]
  /\ UNCHANGED <<body, step, target, images, listed, tabIs, reply, sends>>

\* All of it, enough of it, or drain_seconds.
DrainEnds == step = "drain" /\ ReplyWith(reply.status)

TabCloses ==
  /\ tabIs = "live" /\ sends > 0 /\ tabIs' = "gone" /\ listed' = {}
  /\ UNCHANGED <<body, coming, part, step, target, images, reply, skipped, sends>>

UploadNext ==
  \/ Send \/ NoForm \/ CheckSession \/ Open \/ Validate
  \/ StoreChunk \/ StorageFull \/ NextChunks \/ Register
  \/ Breaks \/ Drain \/ DrainEnds \/ TabCloses

UploadSpec == UploadInit /\ [][UploadNext]_uploadVars

-----------------------------------------------------------------------------
IsFileHead(c) == c.on = "headers" /\ c.name # "none"

FileParts(calls) == {calls[i].of : i \in {j \in DOMAIN calls : IsFileHead(calls[j])}}

FirstFile(calls) == CHOOSE i \in FileParts(calls) : \A j \in FileParts(calls) : i <= j

\* The data of a part among the first of some callbacks, and among all.
DataWithin(calls, i) ==
  LET f[n \in 0 .. Len(calls)] ==
        IF n = 0 THEN <<>>
        ELSE IF calls[n].on = "data" /\ calls[n].of = i
             THEN Append(f[n - 1], <<i, calls[n].piece>>)
             ELSE f[n - 1]
  IN  f

DataOf(calls, i) == DataWithin(calls, i)[Len(calls)]

\* However the network cuts a body, what is answered as stored is all that came
\* of its first file part and nothing of the others, and its size and a name the
\* client gave are told (MultipartFile, UploadRoute._store).
UploadIsWhole ==
  reply.status = "stored" =>
    LET first == FirstFile(body)
    IN  /\ images[reply.file.name] = DataOf(body, first)
        /\ reply.file.size = Len(DataOf(body, first))
        /\ \E c \in ToSet(body) : IsFileHead(c) /\ c.name = reply.file.name
=============================================================================
