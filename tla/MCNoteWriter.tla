---------------------------- MODULE MCNoteWriter ----------------------------
(* Instances of NoteWriter: a gift wrap with the rumor inside it, two      *)
(* replies, a profile.                                                      *)
EXTENDS NoteWriter, TLC

CONSTANTS wrap, rumor, reply, second, profile, replies

\* The rumor may also be met as plaintext.
RumorInWrap == wrap :> rumor

NoRumors == <<>>

NothingBumps == [id \in Ids |-> {}]

\* Both replies bump the reply counter of the note they answer.
ReplyBumps == [id \in Ids |-> IF id \in {reply, second} THEN {replies} ELSE {}]

\* The rumor is itself a reply.
RumorBumps == [id \in Ids |-> IF id = rumor THEN {replies} ELSE {}]
=============================================================================
