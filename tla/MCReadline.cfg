CONSTANTS
    Blank = 1
    Chars <- MCChars
    Commands <- MCCommands
    LineSize = 4
    HistSize = 7
    FirstLines <- MCFirstLines
    Prompt <- MCPrompt
    Width = 5
    Outputs <- MCOutputs
    MaxLines = 2
SPECIFICATION Spec
\* After an overrun nothing is said.
CHECK_DEADLOCK FALSE
INVARIANTS
    ScreenShowsLine
    HistoryIsRecent
PROPERTY
    OnlyCompletionOverruns
