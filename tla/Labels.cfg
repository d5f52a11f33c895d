CONSTANTS
    None = None
    Width = 28
    Lines <- MCLines
    Asker = {1, 2}
SPECIFICATION Spec
INVARIANTS TypeOK QueryEndsAtNode AnswersComeBack LabelsTellTopology
PROPERTY EveryHopIsNearer
