---------------------------- MODULE MCMacroEngine ----------------------------
(* Values of MacroEngine's constants for TLC.  One unit of time is five    *)
(* minutes: Window 1, Pre 3, Post and Cluster 6, Forget 12.  Two HIGH      *)
(* titles and one MEDIUM title; calendars in which they are close together,*)
(* just far enough apart, alone, after or beside a MEDIUM one.             *)
EXTENDS MacroEngine

Event(t, n) == [title |-> t, time |-> n]
MCHigh == {"NFP", "FOMC"}
MCNone == {{}}
MCCalendars == {
  {Event("NFP", 4), Event("FOMC", 9)},
  {Event("NFP", 4), Event("PMI", 6), Event("FOMC", 10)},
  {Event("NFP", 9), Event("PMI", 7)},
  {Event("NFP", 4), Event("PMI", 4), Event("FOMC", 6)},
  {Event("FOMC", 12)} }
MCAnyCache == MCNone \cup {{Event("NFP", 4), Event("FOMC", 9)}, {Event("FOMC", 12)}}
MCOneCalendar == {{Event("NFP", 4), Event("FOMC", 9)}}
=============================================================================
