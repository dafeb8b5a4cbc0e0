----------------------- MODULE MCNotificationDispatch -----------------------
(* Constant values for the runs of NotificationDispatch. *)
EXTENDS NotificationDispatch, TLC

CONSTANTS u1

TwoUsers == {u1}
Up == [id |-> "e1", to |-> u1, type |-> "alert.price.above"]
OneEvent == {Up}

Everything == [optInChannels |-> Channels, disabledEventTypes |-> {}, start |-> Null, end |-> Null]
\* Quiet from the last minute of the day to the first.
QuietAtNight == [Everything EXCEPT !.start = 1, !.end = 0]
MailOnly == [Everything EXCEPT !.optInChannels = {"EMAIL"}]
MCPreferences == {Everything, MailOnly}
MCQuietPreferences == {Everything, QuietAtNight}

\* Messages are interchangeable: no property orders or chooses them.
DispatchSymmetry == Permutations(Deliveries)
=============================================================================
