SPECIFICATION TemplateSpec
CONSTANTS
    AllTemplates <- MCTemplateSet
    Value <- MCValue
    Texts <- MCTexts
INVARIANTS
    TemplatesTypeOK
    MatchesInOrder
    RendersTheTemplate
    PathsLeadBack
    StatusIsWhatIsKnown
PROPERTY
    EveryTemplateIsDecided
