----------------------------- MODULE MCJournal ------------------------------
EXTENDS Journal

\* Two events of one client, while another service posts an item the models
\* reject, an event with the timestamp of the first and a safety event.
MCStamp == <<1, 2>>
MCPayloads ==
  {<<[name |-> 3, time |-> 6, kind |-> "invalid"],
     [name |-> 4, time |-> 1, kind |-> "event"],
     [name |-> 5, time |-> 5, kind |-> "safety"]>>}
MCRanges == {[from |-> 0, to |-> 9], [from |-> 2, to |-> 1]}
=============================================================================
