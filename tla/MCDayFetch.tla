------------------------------ MODULE MCDayFetch ------------------------------
(* One project of one file, a day of work, a zero day, one with a hole in it, *)
(* one that counts more than there is, and a body that says 402.              *)
EXTENDS DayFetch

CONSTANTS p1, f1, w1, home

MCDay(sound, refusal, total, projects) ==
  [sound |-> sound, refusal |-> refusal, dates |-> Dates, zone |-> home, total |-> total,
   projects |-> projects, dims |-> <<[project |-> p1, name |-> "coding", secs |-> total]>>]
MCProject(secs, file) ==
  [name |-> p1, secs |-> secs, detail |-> "present", entities |-> <<[name |-> f1, secs |-> file]>>]

MCDocuments ==
  {MCDay(TRUE, FALSE, 3, <<MCProject(3, 2)>>),
   MCDay(TRUE, FALSE, 0, <<>>),
   MCDay(FALSE, FALSE, 3, <<MCProject(3, 2)>>),
   MCDay(TRUE, FALSE, 3, <<MCProject(3, 5)>>),
   MCDay(TRUE, TRUE, 0, <<>>)}

MCBeat(payload) ==
  [id |-> 1, day |-> 2, project |-> p1, entity |-> f1, who |-> w1,
   payload |-> payload]
MCBeats ==
  {[sound |-> TRUE, dates |-> Dates, zone |-> None, events |-> beats] :
     beats \in {<<MCBeat(1), MCBeat(1)>>, <<MCBeat(1), MCBeat(2)>>}}
=============================================================================
