---- MODULE MCClientSession ----
EXTENDS ClientSession

CONSTANTS script, console, gui, cliExe, guiExe, gone
\* The console runs from a file that has no full image name.
MCOwn == [c \in Clients |->
             CASE c = gui -> {guiExe} [] c = script -> {cliExe} [] c = console -> {}]
====
