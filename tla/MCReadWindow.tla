---------------------------- MODULE MCReadWindow ----------------------------
EXTENDS ReadWindow

\* Windows of one byte, of a few, as long as the longest file, and too long.
MCCalls == {[op |-> "file", max |-> 1]} \cup [op : {"start", "end"}, max : {1, 2, 3, 5}]
=============================================================================
