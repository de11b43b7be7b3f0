--------------------------- MODULE SyncSessionInv ---------------------------
(***************************************************************************)
(* An inductive invariant of SyncSession.  The invariants of SyncSession   *)
(* are not inductive: each speaks of one kind of message, and rests on     *)
(* what was true when the message before it was sent.  IInv says of every  *)
(* kind of message what the two sides look like while it is outstanding.   *)
(***************************************************************************)
EXTENDS SyncSession

(* Who may be doing what, and who has stopped. *)
Control ==
    /\ pc[Initiator] \in {"idle", "connecting", "failed"} => link = "none"
    /\ pc[Acceptor] \notin {"connecting", "failed"}
    /\ link = "none" => /\ pc[Acceptor] = "idle"
                        /\ \A s \in Side : chan[s] = <<>>
    /\ \A s \in Side :
          /\ pc[s] = "handling" => chan[s] # <<>>
          /\ pc[s] = "gone" => chan[s] = <<>> /\ ~started[s]
          /\ link = "up" /\ pc[s] # "idle" => started[s]

LogsEqual == keyLog[Initiator] = keyLog[Acceptor]

(* Before the connection there is nothing to talk about. *)
Before == link = "none" => LogsEqual /\ tpm[Acceptor].id = NoId

(* How the machine t that sent message m relates to it and to the machine r *)
(* it is meant for...                                                      *)
SenderIs(t, r, m) ==
    /\ t.id = m.id
    /\ m.type = "init" => t.iteration = 0
    /\ m.type = "link" => t.partner = r.id /\ t.iteration = 0
    /\ m.type \in {"one", "advanced"} =>
          /\ t.partner = r.id
          /\ t.iteration - r.iteration \in {0, 1}
          /\ t.x = m.x
          /\ t.h = HiddenOutputs(t.w, t.x)
          /\ m.out = TPMOutput(t.h)
    /\ m.type = "advanced" => /\ m.key = t.w
                              /\ ~m.tell => r.w # t.w
    /\ m.type = "reset" => t.partner = r.id /\ t.iteration = 0

(* ... and the state that r is in when it gets the message. *)
ReceiverIs(r, m) ==
    /\ m.type = "init" => r.id = NoId
    /\ m.type = "link" => r.id = m.self /\ r.id # NoId /\ r.iteration = 0
    /\ m.type \in {"one", "advanced", "reset"} =>
          r.id # NoId /\ r.partner = m.id
    /\ m.type = "advanced" => /\ r.x = m.old
                              /\ r.h = HiddenOutputs(r.w, r.x)

(* Only a reset message that says "save" travels between unequal logs. *)
LogsAre(s, m) ==
    IF m.type = "reset" /\ m.save
    THEN keyLog[Other(s)] = Append(keyLog[s], tpm[s].w)
    ELSE LogsEqual

Flight ==
    \A s \in Side : chan[s] # <<>> =>
       /\ pc[Other(s)] # "gone" =>
             SenderIs(tpm[Other(s)], tpm[s], Head(chan[s]))
       /\ ReceiverIs(tpm[s], Head(chan[s]))
       /\ LogsAre(s, Head(chan[s]))

(* At most the last key is on one side only: all that is left to say when   *)
(* nothing is outstanding.                                                 *)
LogsClose == \/ LogsEqual
             \/ OneLonger(keyLog[Initiator], keyLog[Acceptor])
             \/ OneLonger(keyLog[Acceptor], keyLog[Initiator])

(* A ring holds what was logged, or belongs to no service. *)
Rings == \A s \in Side : registered[s] => ring[s] = keyLog[s]

IInv == TypeOK /\ Control /\ Before /\ OneTurn /\ Flight /\ LogsClose /\ Rings
=============================================================================
