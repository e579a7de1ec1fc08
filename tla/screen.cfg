CONSTANTS
    Printable <- Keys
    Sizes <- ThreeSizes
    SayName <- Say
    HelpName <- Help
    HelpText <- SmallHelp
    Complaint <- SmallComplaint
    Welcome <- SmallWelcome
    Author <- SmallAuthor
    MaxLen = 4
    MaxLog = 2
SPECIFICATION Spec
\* A log that is full and a process that ended are where the model stops.
CHECK_DEADLOCK FALSE
INVARIANTS TypeOK CursorVisible PromptSized VerticalMoves ArgsAgree LinesFit LinesWhole WindowsTiled
PROPERTY EditsLine
