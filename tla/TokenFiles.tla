---------------------------- MODULE TokenFiles ----------------------------
(***************************************************************************)
(* The token commands of cmd/remnaguard/main.go (add, rotate, disable,     *)
(* prune): each reads a token file, edits the document in memory, copies   *)
(* the file to a backup named by the second, renames a synced temporary    *)
(* file over it, loads the merged configuration, and renames the backup    *)
(* back when that fails.  A command may fail on its way or be killed.      *)
(*                                                                         *)
(* A file holds a document, or torn text when a write was cut short.  What *)
(* Load checks of one token alone (known scopes, write scopes with their   *)
(* constraints) is its flag ok; the token files are all included.          *)
(***************************************************************************)
EXTENDS Naturals, Sequences, FiniteSets, Functions

CONSTANTS Editors,    \* shells in which an operator runs token commands
          Paths,      \* token files
          TokenIDs,
          Creds,      \* credential ids an operator or the random source picks
          MaxTime,    \* bound: clock, in seconds
          MaxEdits    \* bound: commands

ASSUME TokenFilesAssumption == MaxTime \in Nat \ {0} /\ MaxEdits \in Nat

Credentials == Seq([ID : Creds, Disabled : BOOLEAN])

TokenPolicies == [ok : BOOLEAN, Credentials : Credentials]

\* A document maps the token ids it lists; a file holds one, or torn text.
NoDoc == [t \in {} |-> [ok |-> TRUE, Credentials |-> <<>>]]

Whole(doc) == [torn |-> FALSE, doc |-> doc]

Torn == [torn |-> TRUE, doc |-> NoDoc]

NoPath == "no path"

VARIABLES
    now,
    files,      \* the token files: a function on the paths that exist
    backups,    \* the backups: a function on the pairs of path and second
    pc,         \* per editor: next step of its command
    path, doc,  \* per editor: file to replace, edited document
    copy,       \* per editor: the file as it was read for the backup
    backup,     \* per editor: second that names the backup, 0 for none
    prints,     \* per editor: token and credential to print, if any
    status,     \* per editor: how its last command ended
    before,     \* per editor: the token files when its last command started
    printed,    \* raw tokens printed: pairs of token and credential
    revoked,    \* credentials a command set out to disable
    edits       \* commands so far

commandVars == <<pc, path, doc, copy, backup, prints, status, before>>
vars == <<now, files, backups, commandVars, printed, revoked, edits>>

-----------------------------------------------------------------------------
(* Documents. *)

With(f, x, y) == [z \in DOMAIN f \cup {x} |-> IF z = x THEN y ELSE f[z]]

\* A missing file reads as an empty document; torn text is a parse error.
Readable(f) == f \in DOMAIN files => ~files[f].torn

readTokenFile(f) == IF f \in DOMAIN files THEN files[f].doc ELSE NoDoc

NewCredential(c) == [ID |-> c, Disabled |-> FALSE]

Lists(tok, c) == \E i \in DOMAIN tok.Credentials : tok.Credentials[i].ID = c

Disable(tok, c) ==
    [tok EXCEPT !.Credentials =
        [i \in DOMAIN @ |-> IF @[i].ID = c THEN [@[i] EXCEPT !.Disabled = TRUE] ELSE @[i]]]

\* The elements of s at the positions P, in their order.
Keep(s, P) ==
    [n \in 1..Cardinality(P) |-> s[CHOOSE i \in P : Cardinality({j \in P : j <= i}) = n]]

Prune(tok) == [tok EXCEPT !.Credentials = Keep(@, {i \in DOMAIN @ : ~@[i].Disabled})]

\* Where a credential id is listed: path, token and position.
PlacesIn(f, t, c) ==
    {<<f, t, i>> : i \in {n \in DOMAIN files[f].doc[t].Credentials :
                            files[f].doc[t].Credentials[n].ID = c}}

Places(c) == UNION {UNION {PlacesIn(f, t, c) : t \in DOMAIN files[f].doc} : f \in DOMAIN files}

\* config.Load of the merged files.
Loads ==
    /\ \A f \in DOMAIN files : ~files[f].torn
    /\ \A f \in DOMAIN files : \A t \in DOMAIN files[f].doc : files[f].doc[t].ok
    /\ \A f, g \in DOMAIN files : f # g => DOMAIN files[f].doc \cap DOMAIN files[g].doc = {}
    /\ \A c \in Creds : Cardinality(Places(c)) <= 1

-----------------------------------------------------------------------------
(* Commands: what each reads and edits before it writes. *)

\* The edited document is ready to be written to f.
Begin(e, f, newDoc, toPrint) ==
    /\ pc[e] = "idle"
    /\ edits < MaxEdits
    /\ edits' = edits + 1
    /\ pc' = [pc EXCEPT ![e] = "backup"]
    /\ path' = [path EXCEPT ![e] = f]
    /\ doc' = [doc EXCEPT ![e] = newDoc]
    /\ prints' = [prints EXCEPT ![e] = toPrint]
    /\ status' = [status EXCEPT ![e] = "running"]
    /\ before' = [before EXCEPT ![e] = files]
    /\ UNCHANGED <<now, files, backups, copy, backup, printed>>

\* The file is the default one of the token or a given one.
Add(e, f, t, c, ok) ==
    LET tok == [ok |-> ok, Credentials |-> <<NewCredential(c)>>] IN
    /\ Readable(f)
    /\ t \notin DOMAIN readTokenFile(f)
    /\ Begin(e, f, With(readTokenFile(f), t, tok), {<<t, c>>})
    /\ UNCHANGED revoked

\* loadTokenDocForEdit: the file that lists the token.
Edit(e, f, t, tok, toPrint) ==
    /\ Readable(f)
    /\ t \in DOMAIN readTokenFile(f)
    /\ Begin(e, f, With(readTokenFile(f), t, tok), toPrint)

Rotate(e, f, t, c) ==
    /\ t \in DOMAIN readTokenFile(f)
    /\ Edit(e, f, t, [readTokenFile(f)[t] EXCEPT !.Credentials = Append(@, NewCredential(c))],
            {<<t, c>>})
    /\ UNCHANGED revoked

DisableCredential(e, f, t, c) ==
    /\ t \in DOMAIN readTokenFile(f)
    /\ Lists(readTokenFile(f)[t], c)
    /\ Edit(e, f, t, Disable(readTokenFile(f)[t], c), {})
    /\ revoked' = revoked \cup {<<t, c>>}

PruneToken(e, f, t) ==
    /\ t \in DOMAIN readTokenFile(f)
    /\ Edit(e, f, t, Prune(readTokenFile(f)[t]), {})
    /\ UNCHANGED revoked

-----------------------------------------------------------------------------
(* writeTokenFileWithValidation. *)

Goto(e, step) ==
    /\ pc' = [pc EXCEPT ![e] = step]
    /\ UNCHANGED <<path, doc, prints, status, before>>

End(e, how) ==
    /\ pc' = [pc EXCEPT ![e] = "idle"]
    /\ path' = [path EXCEPT ![e] = NoPath]
    /\ doc' = [doc EXCEPT ![e] = NoDoc]
    /\ copy' = [copy EXCEPT ![e] = Torn]
    /\ backup' = [backup EXCEPT ![e] = 0]
    /\ prints' = [prints EXCEPT ![e] = {}]
    /\ status' = [status EXCEPT ![e] = how]
    /\ UNCHANGED before

\* An existing file is read and its backup is created, empty at first, over the
\* one of the same second.
BackupOpen_NewDocument(e) ==
    /\ pc[e] = "backup"
    /\ backup' = [backup EXCEPT ![e] = now]
    /\ copy' = [copy EXCEPT ![e] = Whole(doc[e])]
    /\ backups' = With(backups, <<path[e], now>>, Torn)
    /\ Goto(e, "fill")
    /\ UNCHANGED <<now, files, printed, revoked, edits>>

BackupOpen(e) ==
    /\ pc[e] = "backup"
    /\ \/ /\ path[e] \in DOMAIN files
          /\ backup' = [backup EXCEPT ![e] = now]
          /\ copy' = [copy EXCEPT ![e] = files[path[e]]]
          /\ backups' = With(backups, <<path[e], now>>, Torn)
          /\ Goto(e, "fill")
       \/ /\ path[e] \notin DOMAIN files
          /\ Goto(e, "replace")
          /\ UNCHANGED <<backup, copy, backups>>
    /\ UNCHANGED <<now, files, printed, revoked, edits>>

BackupFill(e) ==
    /\ pc[e] = "fill"
    /\ backups' = With(backups, <<path[e], backup[e]>>, copy[e])
    /\ Goto(e, "replace")
    /\ UNCHANGED <<now, files, copy, backup, printed, revoked, edits>>

\* The temporary file is complete and on disk before it is renamed.
Replace_Unsynced(e) ==
    /\ pc[e] = "replace"
    /\ \E content \in {Whole(doc[e]), Torn} : files' = With(files, path[e], content)
    /\ Goto(e, "validate")
    /\ UNCHANGED <<now, backups, copy, backup, printed, revoked, edits>>

Replace(e) ==
    /\ pc[e] = "replace"
    /\ files' = With(files, path[e], Whole(doc[e]))
    /\ Goto(e, "validate")
    /\ UNCHANGED <<now, backups, copy, backup, printed, revoked, edits>>

\* The raw token is printed only when the merged configuration loads.
Validate_PrintsFirst(e) ==
    /\ pc[e] = "validate"
    /\ printed' = printed \cup prints[e]
    /\ \/ Loads /\ End(e, "done")
       \/ ~Loads /\ backup[e] # 0 /\ Goto(e, "restore") /\ UNCHANGED <<copy, backup>>
       \/ ~Loads /\ backup[e] = 0 /\ End(e, "failed")
    /\ UNCHANGED <<now, files, backups, revoked, edits>>

Validate(e) ==
    /\ pc[e] = "validate"
    /\ \/ /\ Loads
          /\ printed' = printed \cup prints[e]
          /\ End(e, "done")
       \/ /\ ~Loads
          /\ IF backup[e] # 0 THEN Goto(e, "restore") /\ UNCHANGED <<copy, backup>>
             ELSE End(e, "failed")
          /\ UNCHANGED printed
    /\ UNCHANGED <<now, files, backups, revoked, edits>>

\* The backup is renamed over the file.  The rename may fail, and must when
\* another editor has taken the backup: the error is ignored, the edited file
\* stays, and the command reports the same failure (a status of its own here).
Restore(e) ==
    /\ pc[e] = "restore"
    /\ LET b == <<path[e], backup[e]>> IN
       \/ /\ b \in DOMAIN backups
          /\ files' = With(files, path[e], backups[b])
          /\ backups' = Restrict(backups, DOMAIN backups \ {b})
          /\ End(e, "failed")
       \/ /\ UNCHANGED <<files, backups>>
          /\ End(e, "unrestored")
    /\ UNCHANGED <<now, printed, revoked, edits>>

\* A write, sync or rename reports an error (a full or read-only disk).
WriteFails(e) ==
    /\ pc[e] \in {"backup", "fill", "replace"}
    /\ End(e, "failed")
    /\ UNCHANGED <<now, files, backups, printed, revoked, edits>>

Crash(e) ==
    /\ pc[e] # "idle"
    /\ End(e, "killed")
    /\ UNCHANGED <<now, files, backups, printed, revoked, edits>>

Tick ==
    /\ now < MaxTime
    /\ now' = now + 1
    /\ UNCHANGED <<files, backups, commandVars, printed, revoked, edits>>

-----------------------------------------------------------------------------
Init ==
    /\ now = 1
    /\ files = [f \in {} |-> Torn]
    /\ backups = [b \in {} |-> Torn]
    /\ pc = [e \in Editors |-> "idle"]
    /\ path = [e \in Editors |-> NoPath]
    /\ doc = [e \in Editors |-> NoDoc]
    /\ copy = [e \in Editors |-> Torn]
    /\ backup = [e \in Editors |-> 0]
    /\ prints = [e \in Editors |-> {}]
    /\ status = [e \in Editors |-> "none"]
    /\ before = [e \in Editors |-> files]
    /\ printed = {}
    /\ revoked = {}
    /\ edits = 0

Command(e, f, t) ==
    \/ PruneToken(e, f, t)
    \/ \E c \in Creds :
          \/ \E ok \in BOOLEAN : Add(e, f, t, c, ok)
          \/ Rotate(e, f, t, c)
          \/ DisableCredential(e, f, t, c)

Next ==
    \/ \E e \in Editors :
          \/ \E f \in Paths, t \in TokenIDs : Command(e, f, t)
          \/ BackupOpen(e) \/ BackupFill(e) \/ Replace(e) \/ Validate(e) \/ Restore(e)
          \/ WriteFails(e) \/ Crash(e)
    \/ Tick

Spec == Init /\ [][Next]_vars

-----------------------------------------------------------------------------
(* Properties, for one editor at a time: the commands take no lock. *)

IsContent(x) ==
    /\ x.torn \in BOOLEAN
    /\ DOMAIN x.doc \subseteq TokenIDs
    /\ \A t \in DOMAIN x.doc : x.doc[t] \in TokenPolicies

\* Every variable has its type, and no token file is ever torn: whatever step a
\* command is killed at, a file is replaced only by a complete document or by a
\* complete backup.
TypeOK ==
    /\ now \in 1..MaxTime
    /\ DOMAIN files \subseteq Paths
    /\ \A f \in DOMAIN files : ~files[f].torn /\ IsContent(files[f])
    /\ DOMAIN backups \subseteq Paths \X (1..MaxTime)
    /\ \A b \in DOMAIN backups : IsContent(backups[b])
    /\ pc \in [Editors -> {"idle", "backup", "fill", "replace", "validate", "restore"}]
    /\ path \in [Editors -> Paths \cup {NoPath}]
    /\ backup \in [Editors -> 0..MaxTime]
    /\ status \in [Editors -> {"none", "running", "done", "failed", "unrestored", "killed"}]
    /\ printed \subseteq TokenIDs \X Creds
    /\ revoked \subseteq TokenIDs \X Creds
    /\ edits \in 0..MaxEdits

\* The token files a command started with, but for the new file it may have left.
KeptFiles(e) == Restrict(files, DOMAIN before[e])

\* Some backup, put back by hand, makes the files those the command started with.
Recoverable(e) == \E b \in DOMAIN backups : With(files, b[1], backups[b]) = before[e]

\* A command that reports an error has changed no file that existed before it:
\* the restored backup is the copy this very command took, also when an earlier
\* command in the same second was killed and left a torn one.  When the restoring
\* rename itself fails, the edited file stays, but that copy is still there and
\* putting it back undoes the command.
EditUndone ==
    \A e \in Editors :
        /\ status[e] = "failed" => KeptFiles(e) = before[e]
        /\ status[e] = "unrestored" => Recoverable(e)

InForce(t, c) ==
    \E f \in DOMAIN files :
        /\ t \in DOMAIN files[f].doc
        /\ \E i \in DOMAIN files[f].doc[t].Credentials :
              files[f].doc[t].Credentials[i] = NewCredential(c)

\* A raw token the operator was shown is in force until a disable names it: no
\* failed, undone or killed command takes it away, and none is shown before its
\* credential is there to stay.
PrintedInForce == \A x \in printed : x \in revoked \/ InForce(x[1], x[2])

\* README.md: "token add, rotate, disable, and prune commands with atomic YAML
\* writes, backups, and validation rollback".  A command whose validation failed
\* then leaves the token files as they were.
ValidationRollback == \A e \in Editors : status[e] = "failed" => files = before[e]

=============================================================================
