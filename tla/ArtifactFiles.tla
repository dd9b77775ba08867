--------------------------- MODULE ArtifactFiles ---------------------------
(***************************************************************************)
(* The files the example programs write, and the program that writes them. *)
(* A file is created, which empties it, and then written; nothing is       *)
(* renamed into place and nothing is removed, so a run that stops leaves   *)
(* what it wrote, and the next run writes over it.                         *)
(***************************************************************************)
EXTENDS Naturals, Sequences

CONSTANT MaxRuns   \* runs of the program, one after the other

VARIABLES
    disk,    \* the files there are: <<>> when torn, <<content>> when whole
    step,    \* where the program is
    exit,    \* "running", "failed", or how it ended well
    fault,   \* whether this run was killed, a call of it failed or a file it reads is unusable
    runs

fileVars == <<disk, step, exit, fault, runs>>

----------------------------------------------------------------------------

Running == exit = "running"

Whole(path) == path \in DOMAIN disk /\ disk[path] # <<>>

FilesInit ==
    /\ disk = <<>>
    /\ exit = "running"
    /\ fault = FALSE
    /\ runs = 1

Put(path, content) ==
    disk' = [p \in DOMAIN disk \union {path} |-> IF p = path THEN content ELSE disk[p]]

\* File::create.
Create(path) == Put(path, <<>>)

\* write_all and flush.
WriteAll(path, content) == Put(path, <<content>>)

GoOn(next) == step' = next /\ UNCHANGED <<exit, fault, runs>>

\* The program returns an error.
Fail(why) ==
    /\ exit' = "failed"
    /\ fault' = why
    /\ UNCHANGED <<disk, step, runs>>

\* A read, a write or a command fails, or the program is killed.
Stop ==
    /\ Running
    /\ Fail(TRUE)

\* The program is started again over what is there.
Restart(first) ==
    /\ ~Running
    /\ runs < MaxRuns
    /\ runs' = runs + 1
    /\ exit' = "running"
    /\ fault' = FALSE
    /\ step' = first
    /\ UNCHANGED disk

=============================================================================
