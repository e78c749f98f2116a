SPECIFICATION AnswersSpec
CONSTANTS
  Skills <- MCSkills
  Vocabulary <- MCVocabulary
  Core <- MCCore
  Phrases <- MCPhrases
  Seeds <- MCSeeds
  Scale = 60
  None = None
  Cases <- MCCases
  Extra <- MCExtra
  Hours <- MCHours
  Banked <- MCBanked
  PROGRESSION <- MCPROGRESSION
  HOURS <- MCHOURS
  SKILL_PREMIUM_LPA <- MCSKILL_PREMIUM_LPA
  DOMAIN_PREMIUM_LPA <- MCDOMAIN_PREMIUM_LPA
  LOCATION_FACTOR <- MCLOCATION_FACTOR
  COMPANY_FACTOR <- MCCOMPANY_FACTOR
  Lower <- MCLower
  CategoryOf <- MCCategoryOf
  TechStack <- MCTechStack
  Alphabet <- MCAlphabet
  Similarity <- MCSimilarity
  Alignment <- MCAlignment
  Tiers <- MCTiers
  Sources <- MCSources
  KitBank <- MCKitBank
  CODING_TOPICS <- MCCODING_TOPICS
  DomainKits <- MCDomainKits
  Curated <- MCCurated
  TRACKS <- MCTRACKS
  Inferences <- MCInferences
  Asked <- MCAsked
  TAXONOMY <- MCTAXONOMY
  PLUGGED <- MCPLUGGED
  ThisYear = 2026
  MaxErrors = 1
  Rounds = 24
INVARIANTS
  BucketsAgreeWithDecisions
  LearningNeverHurts
  RoadmapFitsTheWeeks
  GraphAnswersAgree
  PracticeAimsAtTheWeak
  EnrichmentOnlyAdds
  OneTwinInABrief
  ContextFits
  ReadersAgree
CHECK_DEADLOCK FALSE
