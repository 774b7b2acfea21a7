------------------------------ MODULE MCReadline ------------------------------
EXTENDS Readline

\* Characters: 1 is the space, 2 and 3 are letters, 9 is the prompt.
MCChars == {1, 2, 3}
MCPrompt == <<9>>
\* A command that is a prefix of another one, and two that are unique.
MCCommands == <<<<2>>, <<2, 3>>, <<3>>>>
MCFirstLines == <<<<2>>, <<3, 2>>>>
MCOutputs == {<<>>, <<2, 3, 2, 3>>}
=============================================================================
