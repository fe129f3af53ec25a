------------------------------ MODULE ConfigVar ------------------------------
(***************************************************************************)
(* A ConfigVar of sylar_server/config.h and its file: setValue() with its  *)
(* listener, a module's cached copy such as those of http_parser.cpp, and  *)
(* Config::LoadFromConfDir, in the threads of one process.                 *)
(***************************************************************************)
EXTENDS Naturals, FiniteSets

CONSTANTS
  Callers,      (* threads that set the variable; one of them is Loader     *)
  Loader,       (* the thread that loads the directory                      *)
  Values,       (* what the variable can be                                 *)
  Default,      (* its value in the program                                 *)
  Bad,          (* the content of a file that cannot be parsed              *)
  MaxTime       (* bound: seconds the clock counts                          *)

ASSUME ConfigAssumption ==
  Loader \in Callers /\ Default \in Values /\ Bad \notin Values /\ MaxTime \in Nat \ {0}

VARIABLES
  file,         (* the .yml file: its content and st_mtime, in seconds      *)
  now,          (* the clock; 0 is 1970                                     *)
  memory,       (* m_val, the listener's copy, s_file2modifytime of a file  *)
  call,         (* of each thread: a setValue() or LoadFromConfDir()        *)
  overlapped    (* two setValue() of this process have overlapped           *)

configVars == <<file, now, memory, call, overlapped>>

Contents == Values \cup {Bad}
Calls == [pc : {"idle", "store", "read", "set"}, value : Contents]
Memories == [value : Values, heard : Values, mtime : 0..MaxTime]

Idle == [pc |-> "idle", value |-> Default]
NoCalls == [t \in Callers |-> Idle]

ConfigTypeOK ==
  /\ file \in [content : Contents, mtime : 1..MaxTime] /\ now \in 1..MaxTime
  /\ memory \in Memories /\ call \in [Callers -> Calls] /\ overlapped \in BOOLEAN

ConfigInit ==
  /\ file \in [content : Contents, mtime : {1}] /\ now = 1
  /\ memory = [value |-> Default, heard |-> Default, mtime |-> 0]
  /\ call = NoCalls /\ overlapped = FALSE
-----------------------------------------------------------------------------
(* Somebody saves the file.                                                  *)
Edit(content) ==
  /\ file' = [content |-> content, mtime |-> now]
  /\ UNCHANGED <<now, memory, call, overlapped>>

Tick ==
  /\ now < MaxTime /\ now' = now + 1
  /\ UNCHANGED <<file, memory, call, overlapped>>

Storing == {t \in Callers : call[t].pc = "store"}

(* setValue(), under the read lock: a value that differs is announced to the *)
(* listener, with the old one ...                                            *)
Tell(t, v, told) ==
  /\ IF v = memory.value
     THEN call' = [call EXCEPT ![t] = Idle] /\ UNCHANGED <<memory, overlapped>>
     ELSE /\ call' = [call EXCEPT ![t] = [pc |-> "store", value |-> v]]
          /\ memory' = [memory EXCEPT !.heard = told]
          /\ overlapped' = (overlapped \/ Storing # {})
  /\ UNCHANGED <<file, now>>

(* Mutant: the old value and the new one are swapped.                        *)
AnnounceOld(t, v) == Tell(t, v, memory.value)

Announce(t, v) == Tell(t, v, v)

(* ... and stored under the write lock, whatever was stored in between.      *)
Store(t) ==
  /\ call[t].pc = "store"
  /\ memory' = [memory EXCEPT !.value = call[t].value]
  /\ call' = [call EXCEPT ![t] = Idle]
  /\ UNCHANGED <<file, now, overlapped>>

(* A thread of the program sets the variable.                                *)
SetValue(t, v) == t # Loader /\ call[t].pc = "idle" /\ Announce(t, v)

(* LoadFromConfDir() for a file: unless it is unchanged, by its time, or     *)
(* this is forced, the time is remembered and the file ...                   *)
Stat(force) ==
  /\ call[Loader].pc = "idle"
  /\ force \/ memory.mtime # file.mtime
  /\ memory' = [memory EXCEPT !.mtime = file.mtime]
  /\ call' = [call EXCEPT ![Loader].pc = "read"]
  /\ UNCHANGED <<file, now, overlapped>>

(* ... read, as it is then; one that cannot be parsed changes nothing ...    *)
ReadFile ==
  /\ call[Loader].pc = "read"
  /\ call' = [call EXCEPT ![Loader] =
       IF file.content = Bad THEN Idle ELSE [pc |-> "set", value |-> file.content]]
  /\ UNCHANGED <<file, now, memory, overlapped>>

(* ... and its value is set: LoadFromYaml().                                 *)
SetLoaded == call[Loader].pc = "set" /\ Announce(Loader, call[Loader].value)
=============================================================================
