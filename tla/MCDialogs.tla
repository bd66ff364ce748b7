----------------------------- MODULE MCDialogs -----------------------------
(***************************************************************************)
(* Seven stops of the real shutter scale, 1/8000 s to 1/2000 s in units of *)
(* 1/160000 s, two ISO a stop apart, and drafts in auto mode and of one    *)
(* shot whose shutter is not on the scale; moments and clocks at the ends  *)
(* of days, months and years, and before the years the picker allows; and  *)
(* scans with a network that two stations offer, with one that is in use,  *)
(* and with a blank name and a signal that is no number.                   *)
(***************************************************************************)
EXTENDS Dialogs

MCShutters == <<20, 25, 32, 40, 50, 64, 80>>
MCIsos == <<1, 2>>
MCApertures == <<0>>
MCSteps == <<1, 2>>

C == [shutter |-> 30, iso |-> 1, aperture |-> 0]
MCDefault == [shutter |-> 32, iso |-> 2, aperture |-> 0]
MCOriginals == {<<>>, <<C>>}
MCIntervals == <<1, 5>>

MCChars == {"abc", "123", "space"}
MCLayers == <<"abc", "123">>
MCListed == {<<"abc">>, <<"abc", "123">>}
MCNewName == <<"123">>
MCShortest == [password |-> 1, ssid |-> 1, config_name |-> 1]
MCLongest == [password |-> 1, ssid |-> 1, config_name |-> 2]

At(date, time) == [date |-> date, time |-> time]
MCToday == <<2026, 8, 12>>
MCMoments ==
    {NoMoment, At(<<>>, <<19, 59, 59>>), At(<<2024, 2, 28>>, <<23, 0, 0>>),
     At(<<1999, 12, 31>>, <<12, 0, 0>>)}
MCClocks ==
    {At(<<1970, 1, 1>>, <<0, 0, 7>>), At(<<2000, 2, 29>>, <<12, 30, 0>>),
     At(<<2026, 3, 31>>, <<9, 0, 0>>), At(<<2023, 2, 28>>, <<9, 0, 0>>),
     At(<<2099, 12, 31>>, <<23, 59, 59>>)}

A == <<"abc">>
B == <<"space">>
Heard(ssid, signal, secured, used) ==
    [ssid |-> ssid, signal |-> signal, secured |-> secured, used |-> used]
MCAirs ==
    {<<Heard(A, 70, TRUE, FALSE), Heard(B, 70, FALSE, TRUE), Heard(A, 40, TRUE, FALSE)>>,
     <<Heard(B, 20, FALSE, FALSE), Heard(A, 30, FALSE, TRUE), Heard(<<>>, 90, TRUE, FALSE),
       Heard(A, 60, TRUE, FALSE), Heard(B, -1, TRUE, FALSE)>>}
MCSaved == {{B}}
=============================================================================
