------------------------------ MODULE MsgCodec ------------------------------
(***************************************************************************)
(* How a chat line travels from GetData to ParseData (usecase/emojix.go):  *)
(* the fields are joined with commas, nothing is escaped, and the reader   *)
(* splits at every comma.  A field is a sequence of characters.            *)
(***************************************************************************)
EXTENDS Naturals, SequencesExt

Comma == ","
SystemFlag == <<"1">>

\* GameMsgNotification.GetData: a system line has a fourth field.
GetData(msg) ==
  msg.user \o <<Comma>> \o msg.nickname \o <<Comma>> \o msg.content
    \o (IF msg.system THEN <<Comma>> \o SystemFlag ELSE <<>>)

\* strings.Split(data, ","): a comma begins the next field.
Cut(items, ch) ==
  IF ch = Comma THEN Append(items, <<>>)
  ELSE [items EXCEPT ![Len(items)] = Append(@, ch)]
Split(data) == FoldLeft(Cut, << <<>> >>, data)

\* Seeded fault: the reader expects the three fields of an ordinary line.
ParsesThree(data) == Len(Split(data)) = 3

\* ParseData returns an error unless there are three or four fields.
Parses(data) == Len(Split(data)) \in 3..4

\* What ParseData makes of the data when it returns no error.
ParseData(data) ==
  LET items == Split(data)
  IN  [user |-> items[1], nickname |-> items[2], content |-> items[3],
       system |-> Len(items) = 4 /\ items[4] = SystemFlag]
=============================================================================
